---- MODULE Spec2Model ----
(***************************************************************************)
(* Binance integration of the Ida trading system.                          *)
(*                                                                         *)
(* Market data side: BinanceOrderBook (binance_order_book.cpp) and the     *)
(* BinanceMarketDataConsumer that drives it from three threads: the        *)
(* thread that calls start()/stop(), the depth WebSocket thread and the    *)
(* snapshot refresh thread.  One symbol is modelled: every symbol has its  *)
(* own book, its own mutex and its own depth client, and the threads touch *)
(* one book at a time.                                                     *)
(***************************************************************************)
EXTENDS Integers, Sequences, FiniteSets, TLC

\* ---------------------------------------------------------------- bounds
\* Prices are 1..MaxPrice and quantities 0..MaxQty (internal fixed point
\* scalars); update ids are 0..MaxId; a message lists at most MaxLevels
\* levels per side; at most MaxQueue market updates wait unread.  The feed
\* of the running consumer quotes the prices 1..MaxFeedPrice only.
MaxPrice == 2
MaxQty == 1
MaxId == 2
MaxLevels == 2
MaxQueue == 1
MaxFeedPrice == 1
\* The order gateway: internal order ids are 1..MaxOrderId, exchange order ids
\* 1..MaxExchangeId, order quantities 1..MaxOrderQty; at most MaxRequests
\* requests are written and the user data stream adds responses while fewer
\* than MaxResponses have been written.
MaxOrderId == 2
MaxExchangeId == 11
MaxOrderQty == 1
MaxRequests == 2
MaxResponses == 1
\* The authenticator: a request has at most MaxParams parameters, with
\* values and millisecond clock readings in 1..MaxStamp.
MaxParams == 2
MaxStamp == 1
\* The WebSocket client: max_reconnect_attempts is set to 0..MaxAttemptLimit;
\* at most MaxPending connection attempts, reads or timers are outstanding
\* at a time.
MaxAttemptLimit == 1
MaxPending == 2
\* greatest max_reconnect_attempts configured for the user data stream
MaxStreamAttempts == 2
\* Order validation: requests carry the ticker ids 1..MaxTickerId; at most
\* MaxUpdates market updates wait unread when a price is validated.
MaxTickerId == 4
MaxUpdates == 2
\* Constants of the WebSocket client: the initial reconnect delay and its
\* cap, in seconds, and the default of max_reconnect_attempts_.
InitialReconnectDelay == 1
ReconnectDelayCap == 30
DefaultMaxReconnectAttempts == 10
\* BinanceConfig: max_reconnect_attempts unless the configuration sets it
ConfigMaxReconnectAttempts == 10
\* BinanceUserDataStream: cap of the reconnect backoff, seconds
BackoffCap == 30
\* BinanceOrderGateway: age in minutes above which getSymbolInfo refreshes
RefreshMinutes == 60

Prices == 1..MaxPrice
Qtys == 0..MaxQty
Ids == 0..MaxId

\* Value of a field that holds no order book datum (Price_INVALID,
\* Qty_INVALID, ...): above every value that is one.
INVALID == MaxPrice + MaxQty + 1

\* ------------------------------------------------------------ data types
\* struct PriceLevel { price; quantity; }
PriceLevel == [price : Prices, quantity : Qtys]

\* The std::vector<PriceLevel> arguments.  The exchange lists a price at
\* most once per side in one message.
PriceLevelVectors ==
    {v \in UNION {[1..n -> PriceLevel] : n \in 0..MaxLevels} :
        \A i, j \in 1..Len(v) : i # j => v[i].price # v[j].price}

\* A side of the book, std::map<Price, Qty>: price -> quantity, where the
\* quantity 0 stands for "no entry" (no entry with quantity 0 is ever stored).
EmptySide == [p \in Prices |-> 0]

\* ------------------------------------------------------ BinanceOrderBook
\* processPriceLevelUpdates that leaves a level listed with quantity 0 in
\* the book.
RECURSIVE processPriceLevelUpdates_KeepZero(_, _)
processPriceLevelUpdates_KeepZero(book_side, updates) ==
    IF updates = <<>> THEN book_side
    ELSE LET level == Head(updates)
         IN processPriceLevelUpdates_KeepZero(
                IF level.quantity > 0
                    THEN [book_side EXCEPT ![level.price] = level.quantity]
                    ELSE book_side,
                Tail(updates))

RECURSIVE processPriceLevelUpdates(_, _)
processPriceLevelUpdates(book_side, updates) ==
    IF updates = <<>> THEN book_side
    ELSE LET level == Head(updates)
         IN processPriceLevelUpdates(
                IF level.quantity > 0
                    THEN [book_side EXCEPT ![level.price] = level.quantity]
                    ELSE [book_side EXCEPT ![level.price] = 0],
                Tail(updates))

\* The two loops of applySnapshot: only levels with quantity > 0 are stored.
RECURSIVE snapshotSide(_, _)
snapshotSide(book_side, levels) ==
    IF levels = <<>> THEN book_side
    ELSE LET level == Head(levels)
         IN snapshotSide(
                IF level.quantity > 0
                    THEN [book_side EXCEPT ![level.price] = level.quantity]
                    ELSE book_side,
                Tail(levels))

\* applySnapshot that does not clear the two sides first.
applySnapshot_NoClear(book, last_update_id, bids, asks) ==
    [bids |-> snapshotSide(book.bids, bids),
     asks |-> snapshotSide(book.asks, asks),
     last_update_id |-> last_update_id,
     is_valid |-> TRUE,
     needs_refresh |-> FALSE]

applySnapshot(book, last_update_id, bids, asks) ==
    [bids |-> snapshotSide(EmptySide, bids),
     asks |-> snapshotSide(EmptySide, asks),
     last_update_id |-> last_update_id,
     is_valid |-> TRUE,
     needs_refresh |-> FALSE]

\* applyDepthUpdate without the test for a sequence gap.
applyDepthUpdate_NoGapCheck(book, first_update_id, final_update_id, bids, asks) ==
    IF ~book.is_valid
        THEN [book |-> [book EXCEPT !.needs_refresh = TRUE], ret |-> FALSE]
    ELSE IF final_update_id < book.last_update_id + 1
        THEN [book |-> book, ret |-> FALSE]
    ELSE [book |-> [book EXCEPT
                      !.bids = processPriceLevelUpdates(@, bids),
                      !.asks = processPriceLevelUpdates(@, asks),
                      !.last_update_id = final_update_id],
          ret |-> TRUE]

\* applyDepthUpdate that rejects a gap without setting needs_refresh_.
applyDepthUpdate_GapSilent(book, first_update_id, final_update_id, bids, asks) ==
    IF ~book.is_valid
        THEN [book |-> [book EXCEPT !.needs_refresh = TRUE], ret |-> FALSE]
    ELSE IF final_update_id < book.last_update_id + 1
        THEN [book |-> book, ret |-> FALSE]
    ELSE IF first_update_id > book.last_update_id + 1
        THEN [book |-> book, ret |-> FALSE]
    ELSE [book |-> [book EXCEPT
                      !.bids = processPriceLevelUpdates(@, bids),
                      !.asks = processPriceLevelUpdates(@, asks),
                      !.last_update_id = final_update_id],
          ret |-> TRUE]

\* applyDepthUpdate that sets needs_refresh_ on a stale diff too.
applyDepthUpdate_StaleMarks(book, first_update_id, final_update_id, bids, asks) ==
    IF ~book.is_valid
        THEN [book |-> [book EXCEPT !.needs_refresh = TRUE], ret |-> FALSE]
    ELSE IF final_update_id < book.last_update_id + 1
        THEN [book |-> [book EXCEPT !.needs_refresh = TRUE], ret |-> FALSE]
    ELSE IF first_update_id > book.last_update_id + 1
        THEN [book |-> [book EXCEPT !.needs_refresh = TRUE], ret |-> FALSE]
    ELSE [book |-> [book EXCEPT
                      !.bids = processPriceLevelUpdates(@, bids),
                      !.asks = processPriceLevelUpdates(@, asks),
                      !.last_update_id = final_update_id],
          ret |-> TRUE]

\* applyDepthUpdate whose staleness test is off by one (final < last).
applyDepthUpdate_OffByOne(book, first_update_id, final_update_id, bids, asks) ==
    IF ~book.is_valid
        THEN [book |-> [book EXCEPT !.needs_refresh = TRUE], ret |-> FALSE]
    ELSE IF final_update_id < book.last_update_id
        THEN [book |-> book, ret |-> FALSE]
    ELSE IF first_update_id > book.last_update_id + 1
        THEN [book |-> [book EXCEPT !.needs_refresh = TRUE], ret |-> FALSE]
    ELSE [book |-> [book EXCEPT
                      !.bids = processPriceLevelUpdates(@, bids),
                      !.asks = processPriceLevelUpdates(@, asks),
                      !.last_update_id = final_update_id],
          ret |-> TRUE]

\* Returns the book after the call and the value returned.
applyDepthUpdate(book, first_update_id, final_update_id, bids, asks) ==
    IF ~book.is_valid
        THEN [book |-> [book EXCEPT !.needs_refresh = TRUE], ret |-> FALSE]
    ELSE IF final_update_id < book.last_update_id + 1
        THEN [book |-> book, ret |-> FALSE]
    ELSE IF first_update_id > book.last_update_id + 1
        THEN [book |-> [book EXCEPT !.needs_refresh = TRUE], ret |-> FALSE]
    ELSE [book |-> [book EXCEPT
                      !.bids = processPriceLevelUpdates(@, bids),
                      !.asks = processPriceLevelUpdates(@, asks),
                      !.last_update_id = final_update_id],
          ret |-> TRUE]

\* Exchange::MEMarketUpdate
MEMarketUpdate(type, side, price, qty, priority) ==
    [type |-> type, ticker_id |-> 1, side |-> side, price |-> price,
     qty |-> qty, priority |-> priority, order_id |-> price]

\* The ADD updates of one side, visiting the prices in the map's order
\* (order[i] is the i-th key the iteration would visit if present).
RECURSIVE sideUpdates(_, _, _, _, _)
sideUpdates(book_side, side, order, i, priority) ==
    IF i > Len(order) THEN <<>>
    ELSE IF book_side[order[i]] = 0
        THEN sideUpdates(book_side, side, order, i + 1, priority)
    ELSE <<MEMarketUpdate("ADD", side, order[i], book_side[order[i]], priority)>>
            \o sideUpdates(book_side, side, order, i + 1, priority + 1)

\* The bids visited from the lowest price up.
Descending_LowestFirst == [i \in 1..MaxPrice |-> i]

Descending == [i \in 1..MaxPrice |-> MaxPrice + 1 - i]
Ascending == [i \in 1..MaxPrice |-> i]

\* generateMarketUpdates without the leading CLEAR when the book is empty.
generateMarketUpdates_NoClearWhenEmpty(book) ==
    IF ~book.is_valid THEN <<>>
    ELSE LET adds == sideUpdates(book.bids, "BUY", Descending, 1, 1)
                     \o sideUpdates(book.asks, "SELL", Ascending, 1, 1)
         IN IF adds = <<>> THEN <<>>
            ELSE <<MEMarketUpdate("CLEAR", "INVALID", INVALID, INVALID, INVALID)>> \o adds

generateMarketUpdates(book) ==
    IF ~book.is_valid THEN <<>>
    ELSE <<MEMarketUpdate("CLEAR", "INVALID", INVALID, INVALID, INVALID)>>
            \o sideUpdates(book.bids, "BUY", Descending, 1, 1)
            \o sideUpdates(book.asks, "SELL", Ascending, 1, 1)

\* std::greater map: begin() is the highest bid; std::map: the lowest ask.
getBestBidPrice(book) ==
    IF ~book.is_valid \/ \A p \in Prices : book.bids[p] = 0 THEN INVALID
    ELSE CHOOSE p \in Prices :
            book.bids[p] > 0 /\ \A r \in Prices : book.bids[r] > 0 => r <= p

getBestAskPrice(book) ==
    IF ~book.is_valid \/ \A p \in Prices : book.asks[p] = 0 THEN INVALID
    ELSE CHOOSE p \in Prices :
            book.asks[p] > 0 /\ \A r \in Prices : book.asks[r] > 0 => p <= r

\* ----------------------------------------------------------------- state
VARIABLES
    \* BinanceOrderBook
    bids_, asks_, last_update_id_, is_valid_, needs_refresh_,
    \* BinanceMarketDataConsumer
    run_, snapshot_thread_running_, depth_ws_clients_, incoming_md_updates_,
    \* position of each thread: "main" (the caller of start/stop),
    \* "refresher" (snapshotRefreshThreadFunc), "depth" (the depth client's
    \* io thread running handleDepthMessage)
    pc,
    \* locals of processDepthUpdate: the result of applyDepthUpdate and the
    \* vector of updates still to push
    success, depth_updates,
    \* local of processOrderBookSnapshot: the updates still to push
    snapshot_updates,
    \* record of what has been applied: lastUpdateId of the snapshot applied
    \* last, final id of the diff applied last since that snapshot, greatest
    \* final id among the diffs handled while the fetch of that snapshot was
    \* in flight (update ids of diffs are positive: 0 stands for "none")
    snapshot_U0, prev_u, fetch_rx,
    \* record of the depth stream: on_state(false) has been delivered since
    \* the snapshot applied last
    ws_disconnected,
    \* BinanceOrderGateway: run_, the client request queue (every request
    \* written so far, and how many of them have been read), the client
    \* response queue (every response written so far), the order-ID map and
    \* whether user_data_stream_ is running
    gw_run_, outgoing_requests_, next_read_index, incoming_responses_,
    order_id_to_binance_id_, user_data_stream_,
    \* position of each gateway thread: "main" (the caller of start/stop),
    \* "processing" (processLoop), "user_data" (the io thread of the user data
    \* stream's WebSocket client running handleUserDataMessage)
    gw_pc,
    \* local of generateAndEnqueueResponse in each thread: the response
    \* written into the slot that getNextToWriteTo returned
    response,
    \* local of handleCancelOrderRequest: binance_order_id
    binance_order_id,
    \* BinanceAuthenticator: the object (api_key_, secret_key_,
    \* credentials_loaded_), what the last loadCredentials() returned ("none"
    \* before the first call returns), and what the last signRequest and
    \* addAuthHeaders calls handed back
    authenticator_, load_result, signed_query, headers,
    \* BinanceWebSocketClient: the object (its members and the operations
    \* outstanding on its io_context), the position of the thread that calls
    \* connect/disconnect/send ("idle", or "join" inside disconnect()), and a
    \* record of the last step: the values passed to status_callback_, the
    \* delay of the timer it created (0: none); then the consecutive failed
    \* connections and the reconnect attempts since the last successful
    \* handshake or connect()
    ws_client_, ws_pc, ws_status, ws_scheduled, ws_failures, ws_attempts,
    \* BinanceUserDataStream: the object (its members, and the detached
    \* reconnect threads that sleep in their backoff), the position of the
    \* thread that calls start/stop ("main") and of keepAliveThread
    \* ("keep_alive"), a record of the last step (how far stop() got, the
    \* connection_failure events passed to user_data_callback_, the backoff
    \* of the reconnect thread it spawned, 0: none), and a record of the
    \* stream's history since start()
    stream, stream_pc, stream_step, stream_history,
    \* BinanceOrderGateway, order validation: the symbols that
    \* symbol_info_cache_ holds an entry for, the whole minutes elapsed since
    \* last_symbol_info_refresh_ (RefreshMinutes + 1 stands for any longer
    \* time), and a record of the last call: which function, its symbol, what
    \* it returned, the exchangeInfo requests it made, the mutexes it held
    \* together, the market updates it read off the queue
    symbol_info_cache_, symbol_info_elapsed, gw_call

bookVars == <<bids_, asks_, last_update_id_, is_valid_, needs_refresh_>>
consumerVars == <<run_, snapshot_thread_running_, depth_ws_clients_>>
mdVars == <<bids_, asks_, last_update_id_, is_valid_, needs_refresh_,
            run_, snapshot_thread_running_, depth_ws_clients_,
          incoming_md_updates_, pc, success, depth_updates,
          snapshot_updates, snapshot_U0, prev_u, fetch_rx, ws_disconnected>>
gatewayVars == <<gw_run_, outgoing_requests_, next_read_index, incoming_responses_,
                 order_id_to_binance_id_, user_data_stream_, gw_pc, response,
                 binance_order_id>>
authVars == <<authenticator_, load_result, signed_query, headers>>
wsVars == <<ws_client_, ws_pc, ws_status, ws_scheduled, ws_failures, ws_attempts>>
streamVars == <<stream, stream_pc, stream_step, stream_history>>
validationVars == <<symbol_info_cache_, symbol_info_elapsed, gw_call>>
netVars == <<authVars, wsVars, streamVars, validationVars>>
vars == <<mdVars, gatewayVars, netVars>>

Book ==
    [bids |-> bids_, asks |-> asks_, last_update_id |-> last_update_id_,
     is_valid |-> is_valid_, needs_refresh |-> needs_refresh_]

SetBook(book) ==
    /\ bids_' = book.bids
    /\ asks_' = book.asks
    /\ last_update_id_' = book.last_update_id
    /\ is_valid_' = book.is_valid
    /\ needs_refresh_' = book.needs_refresh

\* Depth events {U, u, b, a}: a diff covers the update ids U..u.
DepthMessages ==
    {m \in [U : 1..MaxId, u : 1..MaxId, b : PriceLevelVectors, a : PriceLevelVectors] :
        m.U <= m.u}

\* REST depth snapshots {lastUpdateId, bids, asks}.
Snapshots == [lastUpdateId : Ids, bids : PriceLevelVectors, asks : PriceLevelVectors]

\* The messages of a feed that quotes the prices 1..MaxFeedPrice.
FeedVectors ==
    {v \in PriceLevelVectors : \A i \in 1..Len(v) : v[i].price <= MaxFeedPrice}
FeedMessages ==
    {m \in [U : 1..MaxId, u : 1..MaxId, b : FeedVectors, a : FeedVectors] : m.U <= m.u}
FeedSnapshots == [lastUpdateId : Ids, bids : FeedVectors, asks : FeedVectors]

\* The messages of a feed whose events list no level.
IdMessages == {m \in [U : 1..MaxId, u : 1..MaxId, b : {<<>>}, a : {<<>>}] : m.U <= m.u}
IdSnapshots == [lastUpdateId : Ids, bids : {<<>>}, asks : {<<>>}]

\* ---------------------------------------------------- BinanceOrderGateway
OrderIds == 1..MaxOrderId
\* Exchange order ids: two values of more than one digit, apart from the
\* internal order ids.
ExchangeIds == {MaxExchangeId - 1, MaxExchangeId}

\* std::string values are sequences of characters.
Digits == <<"0", "1", "2", "3", "4", "5", "6", "7", "8", "9">>
DigitChars == {Digits[d] : d \in 1..10}
DigitValue(ch) == (CHOOSE d \in 1..10 : Digits[d] = ch) - 1

\* std::to_string of a non-negative integer.
RECURSIVE to_string(_)
to_string(n) ==
    IF n < 10 THEN <<Digits[n + 1]>>
    ELSE to_string(n \div 10) \o <<Digits[(n % 10) + 1]>>

\* std::stoull: the value of the leading digits of str; without a leading
\* digit it throws, which the caller catches with order_id left at 0.
RECURSIVE stoullDigits(_, _)
stoullDigits(str, acc) ==
    IF str = <<>> \/ Head(str) \notin DigitChars THEN acc
    ELSE stoullDigits(Tail(str), acc * 10 + DigitValue(Head(str)))

\* The order_id that processOrderUpdate extracts from the client order id.
ParseClientOrderId(c) ==
    IF Len(c) >= 2 /\ c[1] = "x" /\ c[2] = "-"
        THEN IF Len(c) >= 3 /\ c[3] \in DigitChars
                THEN stoullDigits(SubSeq(c, 3, Len(c)), 0)
                ELSE 0
        ELSE 0

\* order_id_to_binance_id_.end(): no entry for the key.
NoEntry == <<>>

\* MEClientRequest {type_, order_id_, qty_} and MEClientResponse {type_,
\* client_order_id_, market_order_id_, exec_qty_, leaves_qty_}; client,
\* ticker, side and price are carried along and not modelled.
ClientRequestTypes == {"NEW", "CANCEL", "INVALID"}
MEClientRequest == [type : ClientRequestTypes, order_id : OrderIds, qty : 1..MaxOrderQty]

MEClientResponse(type, order_id, exec_qty, leaves_qty) ==
    [type |-> type, client_order_id |-> order_id, market_order_id |-> order_id,
     exec_qty |-> exec_qty, leaves_qty |-> leaves_qty]
NoResponse == MEClientResponse("INVALID", 0, 0, 0)

GatewayThreads == {"processing", "user_data"}

\* What the REST part of handleNewOrderRequest comes to: the price fails
\* validateOrderPrice, some step throws (transport, HTTP status, response
\* without a numeric orderId), or the POST returns orderId.
NewOrderOutcomes ==
    [kind : {"price_invalid", "throws"}, orderId : {0}]
        \cup [kind : {"posted"}, orderId : ExchangeIds]

\* handleNewOrderRequest with a parameter that drops the order quantity.
handleNewOrderRequest_LeavesZero(map, request, outcome) ==
    IF outcome.kind = "posted"
        THEN [map |-> [map EXCEPT ![request.order_id] = to_string(outcome.orderId)],
              response |-> MEClientResponse("ACCEPTED", request.order_id, 0, 0)]
        ELSE [map |-> map,
              response |-> MEClientResponse("CANCEL_REJECTED", request.order_id, 0, 0)]

\* handleNewOrderRequest: the map after the call and the response passed
\* to generateAndEnqueueResponse.
handleNewOrderRequest(map, request, outcome) ==
    IF outcome.kind = "posted"
        THEN [map |-> [map EXCEPT ![request.order_id] = to_string(outcome.orderId)],
              response |-> MEClientResponse("ACCEPTED", request.order_id, 0, request.qty)]
        ELSE [map |-> map,
              response |-> MEClientResponse("CANCEL_REJECTED", request.order_id, 0, 0)]

\* The look-up of handleCancelOrderRequest that ignores the map.
lookupBinanceOrderId_AlwaysFallback(map, order_id) == to_string(order_id)

\* handleCancelOrderRequest: the orderId parameter of the DELETE ...
lookupBinanceOrderId(map, order_id) ==
    IF map[order_id] = NoEntry THEN to_string(order_id) ELSE map[order_id]

\* ... and the response, by whether the DELETE returned or threw.
handleCancelOrderResponse(request, deleted) ==
    MEClientResponse(IF deleted THEN "CANCELED" ELSE "CANCEL_REJECTED",
                     request.order_id, 0, 0)

\* executionReport events {c, i, X, q, z}: c is "x-<n>", "<n>" or "x-a"; i is
\* a JSON string or a JSON number; q and z are in internal quantity units.
ClientOrderIds ==
    {<<"x", "-">> \o to_string(n) : n \in 0..MaxOrderId}
        \cup {to_string(1), <<"x", "-", "a">>}
JsonIds == [kind : {"string"}, value : {to_string(e) : e \in ExchangeIds}]
               \cup [kind : {"number"}, value : ExchangeIds]
OrderStatuses ==
    {"NEW", "PARTIALLY_FILLED", "FILLED", "CANCELED", "EXPIRED", "REJECTED",
     "PENDING_CANCEL"}
ExecutionReports ==
    {e \in [c : ClientOrderIds, i : JsonIds, X : OrderStatuses,
            q : 1..MaxOrderQty, z : 0..MaxOrderQty] : e.z <= e.q}

\* The status mapping with EXPIRED left at the default.
ResponseTypeFor_ExpiredAccepted(order_status) ==
    IF order_status = "FILLED" THEN "FILLED"
    ELSE IF order_status \in {"CANCELED", "REJECTED"} THEN "CANCELED"
    ELSE "ACCEPTED"

\* processOrderUpdate: response_type by order_status.
ResponseTypeFor(order_status) ==
    IF order_status \in {"NEW", "PARTIALLY_FILLED"} THEN "ACCEPTED"
    ELSE IF order_status = "FILLED" THEN "FILLED"
    ELSE IF order_status \in {"CANCELED", "EXPIRED", "REJECTED"} THEN "CANCELED"
    ELSE "ACCEPTED"

\* processOrderUpdate: the map after the call and the responses passed to
\* generateAndEnqueueResponse (none or one).  order_update["i"] is read with
\* get<std::string>(), which throws for a JSON number; the exception is
\* caught at the end of the function.
processOrderUpdate(map, order_update) ==
    IF order_update.i.kind # "string" THEN [map |-> map, responses |-> <<>>]
    ELSE LET order_id == ParseClientOrderId(order_update.c)
         IN IF order_id > 0
                THEN [map |-> [map EXCEPT ![order_id] = order_update.i.value],
                      responses |-> <<MEClientResponse(ResponseTypeFor(order_update.X),
                                                       order_id, order_update.z,
                                                       order_update.q - order_update.z)>>]
                ELSE [map |-> map, responses |-> <<>>]

\* ------------------------------------------------- BinanceAuthenticator
\* Strings for keys: the empty string and two non-empty ones.
EmptyString == ""
Strings == {EmptyString, "K1", "K2"}

\* The object before the constructor calls loadCredentials().
NewAuthenticator ==
    [api_key_ |-> EmptyString, secret_key_ |-> EmptyString,
     credentials_loaded_ |-> FALSE]

\* What loadCredentials() can find at vault_path_: no file, a file that is
\* not JSON, JSON without the binance_testnet section, a section without
\* api_key or without secret_key, a key that is not a JSON string, or a
\* complete section.
VaultFailures ==
    {"missing", "malformed", "no_section", "no_api_key", "no_secret_key",
     "api_key_not_string", "secret_key_not_string"}
VaultFiles ==
    [kind : VaultFailures, api_key : Strings, secret_key : {EmptyString}]
        \cup [kind : {"complete"}, api_key : Strings, secret_key : Strings]
GoodVault == [kind |-> "complete", api_key |-> "K1", secret_key |-> "K2"]
MissingVault == [kind |-> "missing", api_key |-> EmptyString, secret_key |-> EmptyString]

\* loadCredentials(): the object after the call and the value returned.  The
\* three early returns leave every member as it was; an exception (parse
\* error, get<std::string>() of a non-string) clears credentials_loaded_
\* after whatever had been assigned.
loadCredentials(a, vault) ==
    IF vault.kind \in {"missing", "no_section", "no_api_key", "no_secret_key"}
        THEN [authenticator |-> a, ret |-> FALSE]
    ELSE IF vault.kind \in {"malformed", "api_key_not_string"}
        THEN [authenticator |-> [a EXCEPT !.credentials_loaded_ = FALSE],
              ret |-> FALSE]
    ELSE IF vault.kind = "secret_key_not_string"
        THEN [authenticator |-> [a EXCEPT !.api_key_ = vault.api_key,
                                          !.credentials_loaded_ = FALSE],
              ret |-> FALSE]
    ELSE [authenticator |-> [api_key_ |-> vault.api_key,
                             secret_key_ |-> vault.secret_key,
                             credentials_loaded_ |-> TRUE],
          ret |-> TRUE]

hasValidCredentials(a) ==
    a.credentials_loaded_ /\ a.api_key_ # EmptyString /\ a.secret_key_ # EmptyString

\* Parameter names in the order of std::less<std::string>, which is the
\* order in which a std::map<std::string, std::string> is iterated.
ParamNames == <<"side", "symbol", "timestamp">>
KeyRank(name) == CHOOSE i \in 1..Len(ParamNames) : ParamNames[i] = name
Param(name, value) == [name |-> name, value |-> value]

\* The parameters a caller supplies, in the order it inserts them.
Parameters ==
    {<<>>}
        \cup {<<Param(ParamNames[i], v)>> : i \in 1..Len(ParamNames), v \in 1..MaxStamp}
        \cup {params \in {<<Param(ParamNames[i], v), Param(ParamNames[j], w)>> :
                              i \in 1..Len(ParamNames), j \in 1..Len(ParamNames),
                              v \in 1..MaxStamp, w \in 1..MaxStamp} :
                params[1].name # params[2].name}

\* The std::map the caller passes: the parameters by ascending name.
RECURSIVE StdMap(_)
StdMap(params) ==
    IF params = <<>> THEN <<>>
    ELSE LET least == CHOOSE i \in 1..Len(params) :
                        \A j \in 1..Len(params) :
                            KeyRank(params[i].name) <= KeyRank(params[j].name)
         IN <<params[least]>>
                \o StdMap(SelectSeq(params, LAMBDA q : q.name # params[least].name))

\* HMAC-SHA256 of a message under a key, taken as collision free.
HMAC(key, message) == [key |-> key, message |-> message]

\* What signRequest returns when credentials are not loaded: "".
NoQuery == [empty |-> TRUE, query |-> <<>>, signature |-> HMAC(EmptyString, <<>>)]

\* signRequest(parameters, with_timestamp) at clock reading ms: the
\* name=value pairs joined by & (query) and the value of the signature
\* parameter appended after them.
signRequest(a, parameters, with_timestamp, ms) ==
    IF ~a.credentials_loaded_ THEN NoQuery
    ELSE LET query_string ==
                StdMap(parameters)
                    \o (IF with_timestamp THEN <<Param("timestamp", ms)>> ELSE <<>>)
         IN [empty |-> FALSE, query |-> query_string,
             signature |-> HMAC(a.secret_key_, query_string)]

\* addAuthHeaders(headers): headers["X-MBX-APIKEY"] = api_key_ when
\* credentials are loaded.
addAuthHeaders(a, hdrs) ==
    IF a.credentials_loaded_
        THEN {h \in hdrs : h.name # "X-MBX-APIKEY"}
                \cup {Param("X-MBX-APIKEY", a.api_key_)}
        ELSE hdrs

\* ----------------------------------------------- BinanceWebSocketClient
Min(a, b) == IF a <= b THEN a ELSE b

\* The object after construction.  connects, reads and timers count the
\* connection attempts (async_resolve up to the WebSocket handshake), the
\* async_read operations and the reconnect timers outstanding on ioc_; write
\* is "posted" (processWriteQueue posted), "writing" (async_write
\* outstanding) or "none"; io_thread_ tells whether the io thread runs.
NewWebSocketClient ==
    [running_ |-> FALSE, connected_ |-> FALSE, reconnecting_ |-> FALSE,
     reconnect_attempts_ |-> 0, reconnect_delay_ |-> InitialReconnectDelay,
     max_reconnect_attempts_ |-> DefaultMaxReconnectAttempts,
     send_queue_ |-> 0, connects |-> 0, reads |-> 0, timers |-> 0,
     write |-> "none", io_thread_ |-> FALSE]

\* What a handler comes to: the object after it, the values it passed to
\* status_callback_ in order, and the delay of the timer it created (0 when
\* it created none).
Handled(c, status, delay) == [client |-> c, status |-> status, delay |-> delay]

\* scheduleReconnect().  doClose() acts only on a connected client.
scheduleReconnect(c) ==
    IF ~c.running_ \/ c.reconnecting_ THEN Handled(c, <<>>, 0)
    ELSE IF c.max_reconnect_attempts_ > 0
            /\ c.reconnect_attempts_ >= c.max_reconnect_attempts_
        THEN Handled([c EXCEPT !.reconnecting_ = TRUE, !.running_ = FALSE], <<>>, 0)
    ELSE Handled([c EXCEPT !.reconnecting_ = TRUE,
                           !.connected_ = FALSE,
                           !.reconnect_attempts_ = @ + 1,
                           !.timers = @ + 1],
                 IF c.connected_ THEN <<FALSE>> ELSE <<>>,
                 Min(c.reconnect_delay_, ReconnectDelayCap))

\* doRead(): a new async_read unless not connected or not running.
doRead(c) ==
    IF ~c.connected_ \/ ~c.running_ THEN c ELSE [c EXCEPT !.reads = @ + 1]

\* onResolve, onConnect, onSslHandshake or onHandshake called with an error.
onConnectError(c) ==
    LET c1 == [c EXCEPT !.connects = @ - 1]
    IN IF c1.running_ THEN scheduleReconnect(c1) ELSE Handled(c1, <<>>, 0)

\* onHandshake called without an error, after the three handlers before it.
onHandshake(c) ==
    Handled(doRead([c EXCEPT !.connects = @ - 1,
                             !.connected_ = TRUE,
                             !.reconnect_attempts_ = 0,
                             !.reconnect_delay_ = InitialReconnectDelay,
                             !.reconnecting_ = FALSE]),
            <<TRUE>>, 0)

\* onRead or onWrite called with an error, after the operation is taken off
\* the outstanding ones.
onIoError(c) ==
    LET c1 == [c EXCEPT !.connected_ = FALSE]
        r == IF c1.running_ THEN scheduleReconnect(c1) ELSE Handled(c1, <<>>, 0)
    IN Handled(r.client, <<FALSE>> \o r.status, r.delay)

\* The wait of the reconnect timer completes: nothing when not running, else
\* the delay is doubled and reconnect() starts a connection attempt.
onReconnectTimer(c) ==
    LET c1 == [c EXCEPT !.timers = @ - 1]
    IN IF ~c1.running_ THEN c1
       ELSE [c1 EXCEPT !.reconnect_delay_ = @ * 2, !.connects = @ + 1]

\* ------------------------------------------------ BinanceUserDataStream
\* std::pow(2, n)
RECURSIVE Pow2(_)
Pow2(n) == IF n = 0 THEN 1 ELSE 2 * Pow2(n - 1)

\* The object after construction.  listen_key_ is 0 (empty) or 1 (a key the
\* exchange gave); reconnectors counts the detached reconnect threads that
\* onConnectionStateChange(false) has spawned and that still sleep.
NewUserDataStream(max) ==
    [running_ |-> FALSE, reconnect_attempts_ |-> 0,
     max_reconnect_attempts_ |-> max, listen_key_ |-> 0, reconnectors |-> 0]

\* The record of a step in which the stream did nothing to report, and the
\* history of a stream that has not been started.  started: start() has
\* returned true and no stop() has completed since; closed: stop() has
\* called closeListenKey(); forced: a keep-alive failure has forced a
\* reconnect of a healthy connection, and keys and connects count the
\* listen keys created and the connect() calls that returned true since.
NoStep == [stop |-> "none", failure_events |-> 0, backoff |-> 0, unguarded |-> {}]
NoHistory ==
    [started |-> FALSE, closed |-> FALSE, forced |-> FALSE, keys |-> 0, connects |-> 0]

\* What a callback comes to: the object after it, the connection_failure
\* events it passed to user_data_callback_, and the backoff of the reconnect
\* thread it spawned (0 when it spawned none).
Notified(s, failure_events, backoff) ==
    [stream |-> s, failure_events |-> failure_events, backoff |-> backoff]

\* onConnectionStateChange(connected).  The thread that it spawns after a
\* connection (a keepAliveListenKey() five seconds later) changes no member.
onConnectionStateChange(s, connected) ==
    IF connected THEN Notified([s EXCEPT !.reconnect_attempts_ = 0], 0, 0)
    ELSE IF ~s.running_ THEN Notified(s, 0, 0)
    ELSE LET attempts == s.reconnect_attempts_ + 1
         IN IF attempts > s.max_reconnect_attempts_
                THEN Notified([s EXCEPT !.reconnect_attempts_ = attempts,
                                        !.running_ = FALSE], 1, 0)
                ELSE Notified([s EXCEPT !.reconnect_attempts_ = attempts,
                                        !.reconnectors = @ + 1],
                              0, Min(BackoffCap, Pow2(attempts - 1)))

\* The status callbacks of one handler of the client, in order.
RECURSIVE StatusCallbacks(_, _)
StatusCallbacks(s, status) ==
    IF status = <<>> THEN Notified(s, 0, 0)
    ELSE LET first == onConnectionStateChange(s, Head(status))
             rest == StatusCallbacks(first.stream, Tail(status))
         IN Notified(rest.stream, first.failure_events + rest.failure_events,
                     IF rest.backoff # 0 THEN rest.backoff ELSE first.backoff)

\* connect() of the stream's client: false when the client is running.
connect(c) ==
    IF c.running_ THEN c
    ELSE [c EXCEPT !.reconnect_attempts_ = 0,
                   !.reconnect_delay_ = InitialReconnectDelay,
                   !.running_ = TRUE,
                   !.connected_ = FALSE,
                   !.reconnecting_ = FALSE,
                   !.io_thread_ = TRUE,
                   !.connects = @ + 1]

\* ------------------------------------ BinanceOrderGateway, validation
\* BinanceConfig: tickers_[i] is the symbol configured for ticker id i.
tickers_ == <<"BTCUSDT", "ETHUSDT", "SOLUSDT">>
TickerIds == 1..MaxTickerId

\* BinanceConfig::getSymbolForTickerId
getSymbolForTickerId(ticker_id) ==
    IF ticker_id \in DOMAIN tickers_ THEN tickers_[ticker_id] ELSE "BTCUSDT"

\* What the exchangeInfo request comes to: the transport throws, the body
\* does not parse, the body has no "symbols" array, or it lists symbols.
ExchangeInfoResponses ==
    {[kind |-> k, symbols |-> {}] : k \in {"transport_error", "unparsable", "no_symbols"}}
        \cup {[kind |-> "symbols", symbols |-> S] : S \in SUBSET {tickers_[i] : i \in DOMAIN tickers_}}

\* getSymbolInfo(symbol), the whole function under symbol_info_mutex_.  ret
\* is the symbol whose entry is returned, "none" for the empty object.
getSymbolInfo(cache, elapsed, symbol, exchange_info) ==
    IF ~(elapsed > RefreshMinutes \/ cache = {})
        THEN [cache |-> cache, elapsed |-> elapsed, requests |-> 0,
              ret |-> IF symbol \in cache THEN symbol ELSE "none",
              held |-> {"symbol_info_mutex_"}]
    ELSE IF exchange_info.kind \in {"transport_error", "unparsable"}
        THEN [cache |-> cache, elapsed |-> elapsed, requests |-> 1,
              ret |-> "none",
              held |-> {"symbol_info_mutex_", "BinanceAuthenticator::mutex_"}]
    ELSE [cache |-> exchange_info.symbols, elapsed |-> 0, requests |-> 1,
          ret |-> IF symbol \in exchange_info.symbols THEN symbol ELSE "none",
          held |-> {"symbol_info_mutex_", "BinanceAuthenticator::mutex_"}]

\* The scan of getLatestMarketPrice: the price of the last ADD or MODIFY
\* for the ticker among the updates, 0 when there is none.
RECURSIVE latestPrice(_, _, _)
latestPrice(updates, ticker_id, latest_price) ==
    IF updates = <<>> THEN latest_price
    ELSE LET update == Head(updates)
         IN latestPrice(Tail(updates), ticker_id,
                IF update.ticker_id = ticker_id /\ update.price # INVALID
                        /\ update.type \in {"ADD", "MODIFY"}
                    THEN update.price ELSE latest_price)

\* getLatestMarketPrice that leaves the updates it has scanned in the queue.
getLatestMarketPrice_KeepsUpdates(queue, symbol, api_price) ==
    LET ticker_id == IF symbol = "BTCUSDT" THEN 1
                     ELSE IF symbol = "ETHUSDT" THEN 2
                     ELSE IF symbol = "BNBUSDT" THEN 3 ELSE 0
    IN IF ticker_id = 0 THEN [queue |-> queue, read |-> 0, price |-> api_price]
       ELSE [queue |-> queue, read |-> Len(queue),
             price |-> IF latestPrice(queue, ticker_id, 0) > 0
                        THEN latestPrice(queue, ticker_id, 0) ELSE api_price]

\* getLatestMarketPrice(symbol): for the three symbols it knows a ticker id
\* of, every update is read off the queue; without a price from the queue
\* the price is fetched from the exchange (api_price, 0 on failure).  The
\* price is in the units of Price, 1/10000.
getLatestMarketPrice(queue, symbol, api_price) ==
    LET ticker_id == IF symbol = "BTCUSDT" THEN 1
                     ELSE IF symbol = "ETHUSDT" THEN 2
                     ELSE IF symbol = "BNBUSDT" THEN 3 ELSE 0
    IN IF ticker_id = 0 THEN [queue |-> queue, read |-> 0, price |-> api_price]
       ELSE [queue |-> <<>>, read |-> Len(queue),
             price |-> IF latestPrice(queue, ticker_id, 0) > 0
                        THEN latestPrice(queue, ticker_id, 0) ELSE api_price]

\* The symbol parameter of the order REST call: handleNewOrderRequest takes
\* it from the configuration, handleCancelOrderRequest has it fixed.
orderSymbol(type, ticker_id) ==
    IF type = "NEW" THEN getSymbolForTickerId(ticker_id) ELSE "BTCUSDT"

\* The record of a call.
Called(op, ticker_id, symbol, ret, requests, held, read) ==
    [op |-> op, ticker_id |-> ticker_id, symbol |-> symbol, ret |-> ret,
     requests |-> requests, held |-> held, read |-> read]
NoCall == Called("none", 0, "none", "none", 0, {}, 0)

FetchInFlight == pc["main"] = "fetch" \/ pc["refresher"] = "fetch"

InitObjects ==
    /\ bids_ = EmptySide
    /\ asks_ = EmptySide
    /\ last_update_id_ = 0
    /\ is_valid_ = FALSE
    /\ needs_refresh_ = TRUE
    /\ run_ = FALSE
    /\ snapshot_thread_running_ = FALSE
    /\ depth_ws_clients_ = FALSE
    /\ incoming_md_updates_ = <<>>
    /\ pc = [main |-> "init", refresher |-> "off", depth |-> "idle"]
    /\ success = FALSE
    /\ depth_updates = <<>>
    /\ snapshot_updates = <<>>
    /\ snapshot_U0 = 0
    /\ prev_u = 0
    /\ fetch_rx = 0
    /\ ws_disconnected = FALSE
    /\ gw_run_ = FALSE
    /\ outgoing_requests_ = <<>>
    /\ next_read_index = 0
    /\ incoming_responses_ = <<>>
    /\ order_id_to_binance_id_ = [n \in OrderIds |-> NoEntry]
    /\ user_data_stream_ = FALSE
    /\ gw_pc = [main |-> "init", processing |-> "off", user_data |-> "idle"]
    /\ response = [t \in GatewayThreads |-> NoResponse]
    /\ binance_order_id = NoEntry
    /\ signed_query = NoQuery
    /\ headers = {}
    /\ ws_client_ = NewWebSocketClient
    /\ ws_pc = "idle"
    /\ ws_status = <<>>
    /\ ws_scheduled = 0
    /\ ws_failures = 0
    /\ ws_attempts = 0
    /\ stream_pc = [main |-> "idle", keep_alive |-> "none"]
    /\ stream_step = NoStep
    /\ stream_history = NoHistory
    /\ symbol_info_cache_ = {}
    /\ symbol_info_elapsed = RefreshMinutes + 1
    /\ gw_call = NoCall

\* The authenticator's constructor has called loadCredentials().
Constructed(vault) ==
    /\ authenticator_ = loadCredentials(NewAuthenticator, vault).authenticator
    /\ load_result = IF loadCredentials(NewAuthenticator, vault).ret THEN "ok" ELSE "failed"

\* The user data stream's constructor has read config.max_reconnect_attempts.
StreamConstructed(max) == stream = NewUserDataStream(max)

\* Every object constructed, the authenticator from a complete vault file
\* and the user data stream from the default configuration.
Init ==
    /\ InitObjects
    /\ Constructed(GoodVault)
    /\ StreamConstructed(ConfigMaxReconnectAttempts)

\* ------------------------------------------------- start-up / shutdown
\* start(): run_ = true, connectToWebSockets() up to the initial
\* refreshOrderBookSnapshot(symbol), whose REST fetch is now in flight.
Start ==
    /\ pc["main"] = "init"
    /\ ~run_
    /\ run_' = TRUE
    /\ depth_ws_clients_' = TRUE
    /\ pc' = [pc EXCEPT !["main"] = "fetch"]
    /\ fetch_rx' = 0
    /\ UNCHANGED <<netVars, gatewayVars, ws_disconnected, bookVars, snapshot_thread_running_, incoming_md_updates_,
                   success, depth_updates, snapshot_updates, snapshot_U0, prev_u>>

startSnapshotRefreshThread ==
    /\ pc["main"] = "start_thread"
    /\ ~snapshot_thread_running_
    /\ snapshot_thread_running_' = TRUE
    /\ pc' = [pc EXCEPT !["main"] = "running", !["refresher"] = "loop"]
    /\ UNCHANGED <<netVars, gatewayVars, ws_disconnected, bookVars, run_, depth_ws_clients_, incoming_md_updates_,
                   success, depth_updates, snapshot_updates,
                   snapshot_U0, prev_u, fetch_rx>>

\* stop(): run_ = false ...
Stop ==
    /\ pc["main"] = "running"
    /\ run_
    /\ run_' = FALSE
    /\ pc' = [pc EXCEPT !["main"] = "stop_thread"]
    /\ UNCHANGED <<netVars, gatewayVars, ws_disconnected, bookVars, snapshot_thread_running_, depth_ws_clients_,
                   incoming_md_updates_, success, depth_updates,
                   snapshot_updates, snapshot_U0, prev_u, fetch_rx>>

\* ... snapshot_thread_running_ = false, notify_all ...
StopThread ==
    /\ pc["main"] = "stop_thread"
    /\ snapshot_thread_running_
    /\ snapshot_thread_running_' = FALSE
    /\ pc' = [pc EXCEPT !["main"] = "join"]
    /\ UNCHANGED <<netVars, gatewayVars, ws_disconnected, bookVars, run_, depth_ws_clients_, incoming_md_updates_,
                   success, depth_updates, snapshot_updates,
                   snapshot_U0, prev_u, fetch_rx>>

\* ... snapshot_thread_.join() returns once the refresh thread has ended ...
StopJoin ==
    /\ pc["main"] = "join"
    /\ pc["refresher"] = "done"
    /\ pc' = [pc EXCEPT !["main"] = "disconnect"]
    /\ UNCHANGED <<netVars, gatewayVars, ws_disconnected, bookVars, consumerVars, incoming_md_updates_,
                   success, depth_updates, snapshot_updates,
                   snapshot_U0, prev_u, fetch_rx>>

\* ... client->disconnect() joins the io thread, depth_ws_clients_.clear().
StopDisconnect ==
    /\ pc["main"] = "disconnect"
    /\ pc["depth"] = "idle"
    /\ depth_ws_clients_' = FALSE
    /\ pc' = [pc EXCEPT !["main"] = "stopped"]
    /\ UNCHANGED <<netVars, gatewayVars, ws_disconnected, bookVars, run_, snapshot_thread_running_,
                   incoming_md_updates_, success, depth_updates,
                   snapshot_updates, snapshot_U0, prev_u, fetch_rx>>

\* ------------------------------------------------------ snapshot refresher
\* Where a thread continues after refreshOrderBookSnapshot returns.
AfterRefresh(t) == IF t = "main" THEN "start_thread" ELSE "wait"

\* What one pass of the while/for of snapshotRefreshThreadFunc does for the
\* symbol: leave the loop, skip the symbol, or refresh its book.
RefreshDecision_AlwaysFetch(thread_running, run, needs_refresh) ==
    IF ~thread_running THEN "done"
    ELSE IF ~run THEN "wait"
    ELSE "fetch"

RefreshDecision(thread_running, run, needs_refresh) ==
    IF ~thread_running THEN "done"
    ELSE IF ~run THEN "wait"
    ELSE IF needs_refresh THEN "fetch"
    ELSE "wait"

snapshotRefreshThreadFunc ==
    /\ pc["refresher"] = "loop"
    /\ LET next == RefreshDecision(snapshot_thread_running_, run_, needs_refresh_)
       IN /\ pc' = [pc EXCEPT !["refresher"] = next]
          /\ fetch_rx' = IF next = "fetch" THEN 0 ELSE fetch_rx
    /\ UNCHANGED <<netVars, gatewayVars, ws_disconnected, bookVars, consumerVars, incoming_md_updates_,
                   success, depth_updates, snapshot_updates, snapshot_U0, prev_u>>

\* snapshot_cv_.wait_for(lock, SNAPSHOT_REFRESH_INTERVAL, pred) returns: the
\* interval has elapsed, or the predicate !snapshot_thread_running_ holds.
RefreshWaitReturns ==
    /\ pc["refresher"] = "wait"
    /\ pc' = [pc EXCEPT !["refresher"] = "loop"]
    /\ UNCHANGED <<netVars, gatewayVars, ws_disconnected, bookVars, consumerVars, incoming_md_updates_,
                   success, depth_updates, snapshot_updates,
                   snapshot_U0, prev_u, fetch_rx>>

\* refreshOrderBookSnapshot: the fetch or the parse threw; logged, return.
refreshOrderBookSnapshotFails(t) ==
    /\ pc[t] = "fetch"
    /\ pc' = [pc EXCEPT ![t] = AfterRefresh(t)]
    /\ fetch_rx' = 0
    /\ UNCHANGED <<netVars, gatewayVars, ws_disconnected, bookVars, consumerVars, incoming_md_updates_,
                   success, depth_updates, snapshot_updates, snapshot_U0, prev_u>>

\* refreshOrderBookSnapshot -> processOrderBookSnapshot: the response has
\* arrived and is applied under the book's mutex.
processOrderBookSnapshot(t, snapshots) ==
    /\ pc[t] = "fetch"
    /\ \E s \in snapshots :
        /\ SetBook(applySnapshot(Book, s.lastUpdateId, s.bids, s.asks))
        /\ snapshot_U0' = s.lastUpdateId
    /\ prev_u' = 0
    /\ ws_disconnected' = FALSE
    /\ pc' = [pc EXCEPT ![t] = "generate"]
    /\ UNCHANGED <<netVars, gatewayVars, consumerVars, incoming_md_updates_,
                   success, depth_updates, snapshot_updates, fetch_rx>>

\* ... generateMarketUpdates(updates), under the mutex again ...
SnapshotGenerate(t) ==
    /\ pc[t] = "generate"
    /\ snapshot_updates' = generateMarketUpdates(Book)
    /\ pc' = [pc EXCEPT ![t] =
                IF generateMarketUpdates(Book) = <<>> THEN AfterRefresh(t) ELSE "push"]
    /\ UNCHANGED <<netVars, gatewayVars, ws_disconnected, bookVars, consumerVars, incoming_md_updates_,
                   success, depth_updates, snapshot_U0, prev_u, fetch_rx>>

\* ... one iteration of the loop that pushes the updates to the queue.
SnapshotPush(t) ==
    /\ pc[t] = "push"
    /\ Len(incoming_md_updates_) < MaxQueue
    /\ incoming_md_updates_' = Append(incoming_md_updates_, Head(snapshot_updates))
    /\ snapshot_updates' = Tail(snapshot_updates)
    /\ pc' = [pc EXCEPT ![t] =
                IF Tail(snapshot_updates) = <<>> THEN AfterRefresh(t) ELSE "push"]
    /\ UNCHANGED <<netVars, gatewayVars, ws_disconnected, bookVars, consumerVars, success, depth_updates,
                   snapshot_U0, prev_u, fetch_rx>>

\* ------------------------------------------------------ depth WebSocket
\* handleDepthMessage -> processDepthUpdate: a message is parsed and
\* applyDepthUpdate is called with it, under the book's mutex.
handleDepthMessage(messages) ==
    /\ depth_ws_clients_
    /\ pc["depth"] = "idle"
    /\ \E m \in messages :
        LET r == applyDepthUpdate(Book, m.U, m.u, m.b, m.a)
        IN /\ SetBook(r.book)
           /\ success' = r.ret
           /\ prev_u' = IF r.ret THEN m.u ELSE prev_u
           /\ fetch_rx' = IF FetchInFlight /\ m.u > fetch_rx THEN m.u ELSE fetch_rx
    /\ pc' = [pc EXCEPT !["depth"] = "returned"]
    /\ UNCHANGED <<netVars, gatewayVars, ws_disconnected, consumerVars, incoming_md_updates_, depth_updates,
                   snapshot_updates, snapshot_U0>>

\* handleWebSocketStatus(symbol, connected), called by the depth client's io
\* thread.  On connected = false it takes snapshot_mutex_ and calls
\* snapshot_cv_.notify_one(): the wait_for of the refresh thread re-tests
\* its predicate !snapshot_thread_running_ and, finding it false, goes on
\* waiting for the rest of the interval.  No member of the consumer or of
\* the book is written.
handleWebSocketStatus(connected) ==
    /\ depth_ws_clients_
    /\ pc["depth"] = "idle"
    /\ ws_disconnected' = (ws_disconnected \/ ~connected)
    /\ UNCHANGED <<netVars, gatewayVars, bookVars, consumerVars, incoming_md_updates_, pc, success,
                   depth_updates, snapshot_updates, snapshot_U0, prev_u, fetch_rx>>

\* if (success): generateMarketUpdates(updates), under the mutex again.
DepthGenerate ==
    /\ pc["depth"] = "returned"
    /\ success
    /\ depth_updates' = generateMarketUpdates(Book)
    /\ pc' = [pc EXCEPT !["depth"] =
                IF generateMarketUpdates(Book) = <<>> THEN "idle" ELSE "push"]
    /\ UNCHANGED <<netVars, gatewayVars, ws_disconnected, bookVars, consumerVars, incoming_md_updates_, success,
                   snapshot_updates, snapshot_U0, prev_u, fetch_rx>>

\* if (!success): processDepthUpdate returns without touching the queue.
DepthRejected ==
    /\ pc["depth"] = "returned"
    /\ ~success
    /\ pc' = [pc EXCEPT !["depth"] = "idle"]
    /\ UNCHANGED <<netVars, gatewayVars, ws_disconnected, bookVars, consumerVars, incoming_md_updates_, success,
                   depth_updates, snapshot_updates, snapshot_U0, prev_u, fetch_rx>>

\* One iteration of the loop that pushes the updates to the queue.
DepthPush ==
    /\ pc["depth"] = "push"
    /\ Len(incoming_md_updates_) < MaxQueue
    /\ incoming_md_updates_' = Append(incoming_md_updates_, Head(depth_updates))
    /\ depth_updates' = Tail(depth_updates)
    /\ pc' = [pc EXCEPT !["depth"] =
                IF Tail(depth_updates) = <<>> THEN "idle" ELSE "push"]
    /\ UNCHANGED <<netVars, gatewayVars, ws_disconnected, bookVars, consumerVars, success, snapshot_updates,
                   snapshot_U0, prev_u, fetch_rx>>

\* ------------------------------------------------------ queue reader
\* The reader of the market update queue: getNextToRead / updateReadIndex.
ReadMarketUpdate ==
    /\ incoming_md_updates_ # <<>>
    /\ incoming_md_updates_' = Tail(incoming_md_updates_)
    /\ UNCHANGED <<netVars, gatewayVars, ws_disconnected, bookVars, consumerVars, pc, success, depth_updates,
                   snapshot_updates, snapshot_U0, prev_u, fetch_rx>>

SnapshotThreads == {"main", "refresher"}

\* ------------------------------------------------------ the consumer
Next ==
    \/ Start
    \/ startSnapshotRefreshThread
    \/ Stop
    \/ StopThread
    \/ StopJoin
    \/ StopDisconnect
    \/ snapshotRefreshThreadFunc
    \/ RefreshWaitReturns
    \/ \E t \in SnapshotThreads : refreshOrderBookSnapshotFails(t)
    \/ \E t \in SnapshotThreads : processOrderBookSnapshot(t, FeedSnapshots)
    \/ \E t \in SnapshotThreads : SnapshotGenerate(t)
    \/ \E t \in SnapshotThreads : SnapshotPush(t)
    \/ handleDepthMessage(FeedMessages)
    \/ DepthGenerate
    \/ DepthRejected
    \/ DepthPush
    \/ ReadMarketUpdate

Spec == Init /\ [][Next]_vars

\* ------------------------------------------- the consumer, fairly scheduled
\* The consumer on a feed whose events list no level and whose depth stream
\* may drop and reconnect, with the refresh
\* thread scheduled fairly: each of its steps is taken if it stays enabled
\* (wait_for returns after SNAPSHOT_REFRESH_INTERVAL at the latest), the
\* reader keeps reading, and the push is taken if the queue has room again
\* and again.  Nothing is assumed of stop(), of the feed or of the REST
\* response.
LiveNext ==
    \/ Start
    \/ startSnapshotRefreshThread
    \/ Stop
    \/ StopThread
    \/ StopJoin
    \/ StopDisconnect
    \/ snapshotRefreshThreadFunc
    \/ RefreshWaitReturns
    \/ \E t \in SnapshotThreads : refreshOrderBookSnapshotFails(t)
    \/ \E t \in SnapshotThreads : processOrderBookSnapshot(t, IdSnapshots)
    \/ \E t \in SnapshotThreads : SnapshotGenerate(t)
    \/ \E t \in SnapshotThreads : SnapshotPush(t)
    \/ handleDepthMessage(IdMessages)
    \/ \E connected \in BOOLEAN : handleWebSocketStatus(connected)
    \/ DepthGenerate
    \/ DepthRejected
    \/ DepthPush
    \/ ReadMarketUpdate

RefresherFairness ==
    /\ WF_vars(snapshotRefreshThreadFunc)
    /\ WF_vars(RefreshWaitReturns)
    /\ WF_vars(SnapshotGenerate("refresher"))
    /\ SF_vars(SnapshotPush("refresher"))
    /\ WF_vars(ReadMarketUpdate)

SpecLive == Init /\ [][LiveNext]_vars /\ RefresherFairness

\* ------------------------------------------------------ the book alone
\* BinanceOrderBook driven through its public methods in any order, with
\* any arguments: applySnapshot ...
BookApplySnapshot ==
    /\ \E s \in Snapshots :
        /\ SetBook(applySnapshot(Book, s.lastUpdateId, s.bids, s.asks))
        /\ snapshot_U0' = s.lastUpdateId
    /\ prev_u' = 0
    /\ UNCHANGED <<netVars, gatewayVars, ws_disconnected, consumerVars, incoming_md_updates_, pc, success,
                   depth_updates, snapshot_updates, fetch_rx>>

\* ... and applyDepthUpdate.
BookApplyDepthUpdate ==
    /\ \E m \in DepthMessages :
        LET r == applyDepthUpdate(Book, m.U, m.u, m.b, m.a)
        IN /\ SetBook(r.book)
           /\ success' = r.ret
           /\ prev_u' = IF r.ret THEN m.u ELSE prev_u
    /\ UNCHANGED <<netVars, gatewayVars, ws_disconnected, consumerVars, incoming_md_updates_, pc, depth_updates,
                   snapshot_updates, snapshot_U0, fetch_rx>>

BookNext == BookApplySnapshot \/ BookApplyDepthUpdate

BookSpec == Init /\ [][BookNext]_vars

\* ---------------------------------------------------- the order gateway
\* start(): returns at once without valid credentials; else
\* startUserDataStream() (which may fail), run_ = true, processing thread.
\* start() without the test of hasValidCredentials().
GatewayStart_NoCredentialCheck(valid, stream_started) ==
    /\ gw_pc["main"] \in {"init", "refused", "stopped"}
    /\ ~gw_run_
    /\ gw_run_' = TRUE
    /\ user_data_stream_' = stream_started
    /\ gw_pc' = [gw_pc EXCEPT !["main"] = "running", !["processing"] = "loop"]
    /\ UNCHANGED <<netVars, mdVars, outgoing_requests_, next_read_index, incoming_responses_,
                   order_id_to_binance_id_, response, binance_order_id>>

\* The caller is at "refused" after a start() that returned without
\* starting anything.
GatewayStart(valid, stream_started) ==
    /\ gw_pc["main"] \in {"init", "refused", "stopped"}
    /\ ~gw_run_
    /\ IF valid
         THEN /\ gw_run_' = TRUE
              /\ user_data_stream_' = stream_started
              /\ gw_pc' = [gw_pc EXCEPT !["main"] = "running", !["processing"] = "loop"]
         ELSE /\ gw_pc' = [gw_pc EXCEPT !["main"] = "refused"]
              /\ UNCHANGED <<gw_run_, user_data_stream_>>
    /\ UNCHANGED <<netVars, mdVars, outgoing_requests_, next_read_index, incoming_responses_,
                   order_id_to_binance_id_, response, binance_order_id>>

\* stop(): run_ = false ...
GatewayStop ==
    /\ gw_pc["main"] = "running"
    /\ gw_run_
    /\ gw_run_' = FALSE
    /\ gw_pc' = [gw_pc EXCEPT !["main"] = "stop_stream"]
    /\ UNCHANGED <<netVars, mdVars, outgoing_requests_, next_read_index, incoming_responses_,
                   order_id_to_binance_id_, user_data_stream_, response,
                   binance_order_id>>

\* ... stopUserDataStream(): the WebSocket client's disconnect() joins the io
\* thread ...
stopUserDataStream ==
    /\ gw_pc["main"] = "stop_stream"
    /\ gw_pc["user_data"] = "idle"
    /\ user_data_stream_' = FALSE
    /\ gw_pc' = [gw_pc EXCEPT !["main"] = "join"]
    /\ UNCHANGED <<netVars, mdVars, gw_run_, outgoing_requests_, next_read_index,
                   incoming_responses_, order_id_to_binance_id_, response,
                   binance_order_id>>

\* ... processing_thread_.join().
GatewayJoin ==
    /\ gw_pc["main"] = "join"
    /\ gw_pc["processing"] = "done"
    /\ gw_pc' = [gw_pc EXCEPT !["main"] = "stopped"]
    /\ UNCHANGED <<netVars, mdVars, gw_run_, outgoing_requests_, next_read_index,
                   incoming_responses_, order_id_to_binance_id_,
                   user_data_stream_, response, binance_order_id>>

\* The trade engine writes a request to the client request queue.
WriteClientRequest ==
    /\ Len(outgoing_requests_) < MaxRequests
    /\ \E request \in MEClientRequest :
        outgoing_requests_' = Append(outgoing_requests_, request)
    /\ UNCHANGED <<netVars, mdVars, gw_run_, next_read_index, incoming_responses_,
                   order_id_to_binance_id_, user_data_stream_, gw_pc, response,
                   binance_order_id>>

\* processLoop: while (run_) ...
processLoop ==
    /\ gw_pc["processing"] = "loop"
    /\ gw_pc' = [gw_pc EXCEPT !["processing"] = IF gw_run_ THEN "for" ELSE "done"]
    /\ UNCHANGED <<netVars, mdVars, gw_run_, outgoing_requests_, next_read_index,
                   incoming_responses_, order_id_to_binance_id_,
                   user_data_stream_, response, binance_order_id>>

\* ... for (getNextToRead(); ...): no request to read, sleep 10 ms.
processLoopSleep ==
    /\ gw_pc["processing"] = "for"
    /\ next_read_index = Len(outgoing_requests_)
    /\ gw_pc' = [gw_pc EXCEPT !["processing"] = "loop"]
    /\ UNCHANGED <<netVars, mdVars, gw_run_, outgoing_requests_, next_read_index,
                   incoming_responses_, order_id_to_binance_id_,
                   user_data_stream_, response, binance_order_id>>

\* The request that getNextToRead returns.
NextToRead == outgoing_requests_[next_read_index + 1]

\* ... handleRequest(*client_request): NEW enters handleNewOrderRequest;
\* CANCEL enters handleCancelOrderRequest, which looks binance_order_id up
\* under order_map_mutex_ and issues the DELETE; any other type is answered
\* with CANCEL_REJECTED.
handleRequest ==
    /\ gw_pc["processing"] = "for"
    /\ next_read_index < Len(outgoing_requests_)
    /\ IF NextToRead.type = "NEW"
         THEN /\ gw_pc' = [gw_pc EXCEPT !["processing"] = "new"]
              /\ UNCHANGED <<response, binance_order_id>>
       ELSE IF NextToRead.type = "CANCEL"
         THEN /\ gw_pc' = [gw_pc EXCEPT !["processing"] = "cancel"]
              /\ binance_order_id' =
                    lookupBinanceOrderId(order_id_to_binance_id_, NextToRead.order_id)
              /\ UNCHANGED response
       ELSE /\ gw_pc' = [gw_pc EXCEPT !["processing"] = "write"]
            /\ response' = [response EXCEPT !["processing"] =
                    MEClientResponse("CANCEL_REJECTED", NextToRead.order_id, 0, 0)]
            /\ UNCHANGED binance_order_id
    /\ UNCHANGED <<netVars, mdVars, gw_run_, outgoing_requests_, next_read_index,
                   incoming_responses_, order_id_to_binance_id_, user_data_stream_>>

\* handleNewOrderRequest from the validation to the call of
\* generateAndEnqueueResponse, up to getNextToWriteTo and the filling of the
\* slot.
handleNewOrderRequestReturns ==
    /\ gw_pc["processing"] = "new"
    /\ \E outcome \in NewOrderOutcomes :
        LET r == handleNewOrderRequest(order_id_to_binance_id_, NextToRead, outcome)
        IN /\ order_id_to_binance_id_' = r.map
           /\ response' = [response EXCEPT !["processing"] = r.response]
    /\ gw_pc' = [gw_pc EXCEPT !["processing"] = "write"]
    /\ UNCHANGED <<netVars, mdVars, gw_run_, outgoing_requests_, next_read_index,
                   incoming_responses_, user_data_stream_, binance_order_id>>

\* handleCancelOrderRequest from the return of the DELETE to the call of
\* generateAndEnqueueResponse, up to the filling of the slot.
handleCancelOrderRequestReturns ==
    /\ gw_pc["processing"] = "cancel"
    /\ \E deleted \in BOOLEAN :
        response' = [response EXCEPT !["processing"] =
                        handleCancelOrderResponse(NextToRead, deleted)]
    /\ binance_order_id' = NoEntry
    /\ gw_pc' = [gw_pc EXCEPT !["processing"] = "write"]
    /\ UNCHANGED <<netVars, mdVars, gw_run_, outgoing_requests_, next_read_index,
                   incoming_responses_, order_id_to_binance_id_, user_data_stream_>>

\* generateAndEnqueueResponse without updateWriteIndex.
generateAndEnqueueResponse_NoWriteIndex(t) ==
    /\ gw_pc[t] = "write"
    /\ response' = [response EXCEPT ![t] = NoResponse]
    /\ gw_pc' = [gw_pc EXCEPT ![t] = IF t = "processing" THEN "read_advance" ELSE "idle"]
    /\ UNCHANGED <<netVars, mdVars, gw_run_, outgoing_requests_, next_read_index,
                   incoming_responses_, order_id_to_binance_id_,
                   user_data_stream_, binance_order_id>>

\* generateAndEnqueueResponse: incoming_responses_->updateWriteIndex(), with
\* no lock held; the response is in the queue from here on.
generateAndEnqueueResponse(t) ==
    /\ gw_pc[t] = "write"
    /\ incoming_responses_' = Append(incoming_responses_, response[t])
    /\ response' = [response EXCEPT ![t] = NoResponse]
    /\ gw_pc' = [gw_pc EXCEPT ![t] = IF t = "processing" THEN "read_advance" ELSE "idle"]
    /\ UNCHANGED <<netVars, mdVars, gw_run_, outgoing_requests_, next_read_index,
                   order_id_to_binance_id_, user_data_stream_, binance_order_id>>

\* processLoop: outgoing_requests_->updateReadIndex().
updateReadIndex ==
    /\ gw_pc["processing"] = "read_advance"
    /\ next_read_index' = next_read_index + 1
    /\ gw_pc' = [gw_pc EXCEPT !["processing"] = "for"]
    /\ UNCHANGED <<netVars, mdVars, gw_run_, outgoing_requests_, incoming_responses_,
                   order_id_to_binance_id_, user_data_stream_, response,
                   binance_order_id>>

\* handleUserDataMessage -> processOrderUpdate, on the io thread of the user
\* data stream, for an executionReport event (other events are logged).
handleUserDataMessage ==
    /\ user_data_stream_
    /\ gw_pc["user_data"] = "idle"
    /\ Len(incoming_responses_) < MaxResponses
    /\ \E order_update \in ExecutionReports :
        LET r == processOrderUpdate(order_id_to_binance_id_, order_update)
        IN /\ order_id_to_binance_id_' = r.map
           /\ IF r.responses # <<>>
                THEN /\ response' = [response EXCEPT !["user_data"] = r.responses[1]]
                     /\ gw_pc' = [gw_pc EXCEPT !["user_data"] = "write"]
                ELSE UNCHANGED <<response, gw_pc>>
    /\ UNCHANGED <<netVars, mdVars, gw_run_, outgoing_requests_, next_read_index,
                   incoming_responses_, user_data_stream_, binance_order_id>>

GatewayNext ==
    \/ \E stream_started \in BOOLEAN :
            GatewayStart(hasValidCredentials(authenticator_), stream_started)
    \/ GatewayStop
    \/ stopUserDataStream
    \/ GatewayJoin
    \/ WriteClientRequest
    \/ processLoop
    \/ processLoopSleep
    \/ handleRequest
    \/ handleNewOrderRequestReturns
    \/ handleCancelOrderRequestReturns
    \/ \E t \in GatewayThreads : generateAndEnqueueResponse(t)
    \/ updateReadIndex
    \/ handleUserDataMessage

\* The processing thread is scheduled fairly and every REST call returns or
\* fails; nothing is assumed of the trade engine, of stop() or of the user
\* data stream.
ProcessingFairness ==
    /\ WF_vars(processLoop)
    /\ WF_vars(processLoopSleep)
    /\ WF_vars(handleRequest)
    /\ WF_vars(handleNewOrderRequestReturns)
    /\ WF_vars(handleCancelOrderRequestReturns)
    /\ WF_vars(generateAndEnqueueResponse("processing"))
    /\ WF_vars(updateReadIndex)

\* The gateway is handed an authenticator constructed from a complete vault
\* file or from a missing one.
GatewayInit ==
    /\ InitObjects
    /\ \E vault \in {GoodVault, MissingVault} : Constructed(vault)
    /\ StreamConstructed(ConfigMaxReconnectAttempts)

GatewaySpec == GatewayInit /\ [][GatewayNext]_vars /\ ProcessingFairness

\* -------------------------------------------------- the authenticator
\* loadCredentials() called again by the owner of the authenticator.
reloadCredentials ==
    /\ \E vault \in VaultFiles :
        LET r == loadCredentials(authenticator_, vault)
        IN /\ authenticator_' = r.authenticator
           /\ load_result' = IF r.ret THEN "ok" ELSE "failed"
    /\ UNCHANGED <<mdVars, gatewayVars, validationVars, wsVars, streamVars, signed_query, headers>>

\* A caller signs a request.
signRequestCall ==
    /\ \E parameters \in Parameters, with_timestamp \in BOOLEAN, ms \in 1..MaxStamp :
        signed_query' = signRequest(authenticator_, parameters, with_timestamp, ms)
    /\ UNCHANGED <<mdVars, gatewayVars, validationVars, wsVars, streamVars, authenticator_, load_result, headers>>

\* A caller has the authentication header added to an empty header map.
addAuthHeadersCall ==
    /\ headers' = addAuthHeaders(authenticator_, {})
    /\ UNCHANGED <<mdVars, gatewayVars, validationVars, wsVars, streamVars, authenticator_, load_result, signed_query>>

AuthNext == reloadCredentials \/ signRequestCall \/ addAuthHeadersCall

\* The constructor may have found any vault file.
AuthInit ==
    /\ InitObjects
    /\ \E vault \in VaultFiles : Constructed(vault)
    /\ StreamConstructed(ConfigMaxReconnectAttempts)

AuthSpec == AuthInit /\ [][AuthNext]_vars

\* ------------------------------------------------ the WebSocket client
\* A handler has run on the io thread: the object, and the record of the
\* step.  failed tells that a connection attempt failed or an established
\* connection was lost while the client was running.
WsHandlerDone(r, failed) ==
    /\ ws_client_' = r.client
    /\ ws_status' = r.status
    /\ ws_scheduled' = r.delay
    /\ ws_failures' = IF failed THEN ws_failures + 1 ELSE ws_failures
    /\ UNCHANGED <<mdVars, gatewayVars, validationVars, authVars, streamVars, ws_pc>>

\* setMaxReconnectAttempts(attempts), before connect().
setMaxReconnectAttempts ==
    /\ ws_pc = "idle"
    /\ ~ws_client_.running_
    /\ \E attempts \in 0..MaxAttemptLimit :
        ws_client_' = [ws_client_ EXCEPT !.max_reconnect_attempts_ = attempts]
    /\ ws_status' = <<>>
    /\ ws_scheduled' = 0
    /\ UNCHANGED <<mdVars, gatewayVars, validationVars, authVars, streamVars, ws_pc, ws_failures, ws_attempts>>

\* connect(): false when running_; else the state is reset, the io thread
\* started and async_resolve issued.
WsConnect ==
    /\ ws_pc = "idle"
    /\ ~ws_client_.running_
    /\ ws_client_.connects < MaxPending
    /\ ws_client_' = [ws_client_ EXCEPT !.reconnect_attempts_ = 0,
                                        !.reconnect_delay_ = InitialReconnectDelay,
                                        !.running_ = TRUE,
                                        !.connected_ = FALSE,
                                        !.reconnecting_ = FALSE,
                                        !.io_thread_ = TRUE,
                                        !.connects = @ + 1]
    /\ ws_status' = <<>>
    /\ ws_scheduled' = 0
    /\ ws_failures' = 0
    /\ ws_attempts' = 0
    /\ UNCHANGED <<mdVars, gatewayVars, validationVars, authVars, streamVars, ws_pc>>

\* disconnect() while running_: running_ = false, the socket's operations
\* are cancelled, ioc_.stop(); the caller then waits in io_thread_.join().
\* The operations outstanding on ioc_ stay there.
WsDisconnect ==
    /\ ws_pc = "idle"
    /\ ws_client_.running_
    /\ ws_client_' = [ws_client_ EXCEPT !.running_ = FALSE]
    /\ ws_pc' = "join"
    /\ ws_status' = <<>>
    /\ ws_scheduled' = 0
    /\ UNCHANGED <<mdVars, gatewayVars, validationVars, authVars, streamVars, ws_failures, ws_attempts>>

\* ... the io thread has exited: status_callback_(false) if still connected,
\* and the send queue is cleared.
WsDisconnectJoined ==
    /\ ws_pc = "join"
    /\ ws_client_' = [ws_client_ EXCEPT !.io_thread_ = FALSE,
                                        !.connected_ = FALSE,
                                        !.send_queue_ = 0]
    /\ ws_status' = IF ws_client_.connected_ THEN <<FALSE>> ELSE <<>>
    /\ ws_scheduled' = 0
    /\ ws_pc' = "idle"
    /\ UNCHANGED <<mdVars, gatewayVars, validationVars, authVars, streamVars, ws_failures, ws_attempts>>

\* send(message) on a connected client with an empty queue: the message is
\* queued and processWriteQueue posted.
WsSend ==
    /\ ws_pc = "idle"
    /\ ws_client_.connected_
    /\ ws_client_.send_queue_ = 0
    /\ ws_client_.write = "none"
    /\ ws_client_' = [ws_client_ EXCEPT !.send_queue_ = 1, !.write = "posted"]
    /\ ws_status' = <<>>
    /\ ws_scheduled' = 0
    /\ UNCHANGED <<mdVars, gatewayVars, validationVars, authVars, streamVars, ws_pc, ws_failures, ws_attempts>>

\* A connection attempt fails at one of its four stages.
WsConnectError ==
    /\ ws_client_.io_thread_
    /\ ws_client_.connects > 0
    /\ ws_client_.timers < MaxPending
    /\ WsHandlerDone(onConnectError(ws_client_), ws_client_.running_)
    /\ UNCHANGED ws_attempts

\* A connection attempt gets through the WebSocket handshake.
WsHandshake ==
    /\ ws_client_.io_thread_
    /\ ws_client_.connects > 0
    /\ ws_client_.reads < MaxPending
    /\ ws_client_' = onHandshake(ws_client_).client
    /\ ws_status' = onHandshake(ws_client_).status
    /\ ws_scheduled' = 0
    /\ ws_failures' = 0
    /\ ws_attempts' = 0
    /\ UNCHANGED <<mdVars, gatewayVars, validationVars, authVars, streamVars, ws_pc>>

\* onRead with an error.
WsReadError ==
    /\ ws_client_.io_thread_
    /\ ws_client_.reads > 0
    /\ ws_client_.timers < MaxPending
    /\ WsHandlerDone(onIoError([ws_client_ EXCEPT !.reads = @ - 1]),
                     ws_client_.running_ /\ ws_client_.connected_)
    /\ UNCHANGED ws_attempts

\* onRead with a message of a connected client: message_callback_, doRead().
WsReadMessage ==
    /\ ws_client_.io_thread_
    /\ ws_client_.reads > 0
    /\ ws_client_.connected_
    /\ WsHandlerDone(Handled(doRead([ws_client_ EXCEPT !.reads = @ - 1]), <<>>, 0),
                     FALSE)
    /\ UNCHANGED ws_attempts

\* processWriteQueue(): async_write of the front message unless the queue
\* is empty, or the client not connected or not running.
WsProcessWriteQueue ==
    /\ ws_client_.io_thread_
    /\ ws_client_.write = "posted"
    /\ WsHandlerDone(
            Handled([ws_client_ EXCEPT !.write =
                        IF ws_client_.send_queue_ = 0 \/ ~ws_client_.connected_
                                \/ ~ws_client_.running_
                            THEN "none" ELSE "writing"], <<>>, 0),
            FALSE)
    /\ UNCHANGED ws_attempts

\* onWrite with an error.
WsWriteError ==
    /\ ws_client_.io_thread_
    /\ ws_client_.write = "writing"
    /\ ws_client_.timers < MaxPending
    /\ WsHandlerDone(onIoError([ws_client_ EXCEPT !.write = "none"]),
                     ws_client_.running_ /\ ws_client_.connected_)
    /\ UNCHANGED ws_attempts

\* onWrite without an error: the message is popped.
WsWritten ==
    /\ ws_client_.io_thread_
    /\ ws_client_.write = "writing"
    /\ WsHandlerDone(Handled([ws_client_ EXCEPT !.write = "none", !.send_queue_ = 0],
                             <<>>, 0),
                     FALSE)
    /\ UNCHANGED ws_attempts

\* The handler of a reconnect timer runs.
WsReconnectTimer ==
    /\ ws_client_.io_thread_
    /\ ws_client_.timers > 0
    /\ ws_client_.connects < MaxPending
    /\ WsHandlerDone(Handled(onReconnectTimer(ws_client_), <<>>, 0), FALSE)
    /\ ws_attempts' = IF ws_client_.running_ THEN ws_attempts + 1 ELSE ws_attempts

WsNext ==
    \/ setMaxReconnectAttempts
    \/ WsConnect
    \/ WsDisconnect
    \/ WsDisconnectJoined
    \/ WsSend
    \/ WsConnectError
    \/ WsHandshake
    \/ WsReadError
    \/ WsReadMessage
    \/ WsProcessWriteQueue
    \/ WsWriteError
    \/ WsWritten
    \/ WsReconnectTimer

WsSpec == Init /\ [][WsNext]_vars

\* ------------------------------------------------ the user data stream
\* The stream with its own WebSocket client, ws_client_.  The records of
\* the client's last step are not kept here.
StreamStep(n, stop) ==
    [NoStep EXCEPT !.stop = stop, !.failure_events = n.failure_events,
                   !.backoff = n.backoff]

\* The field unguarded of a step names the functions that read or wrote
\* listen_key_ in the step without holding listen_key_mutex_.

\* The history after createListenKey() gave a key and connect() returned
\* connected.
Counted(h, connected) ==
    IF ~h.forced THEN h
    ELSE [h EXCEPT !.keys = Min(@ + 1, 2),
                   !.connects = IF connected THEN Min(@ + 1, 2) ELSE @]

\* start() of a stream that is not running and whose keep-alive thread is
\* not joinable: createListenKey(), connect(), running_ = true and the
\* keep-alive thread started.
StreamStart ==
    /\ stream_pc["main"] = "idle"
    /\ stream_pc["keep_alive"] = "none"
    /\ ~stream.running_
    /\ ws_pc = "idle"
    /\ ws_client_.connects < MaxPending
    /\ \E key_ok \in BOOLEAN :
        LET connected == key_ok /\ ~ws_client_.running_
        IN /\ stream' = [stream EXCEPT !.listen_key_ = IF key_ok THEN 1 ELSE 0,
                                       !.running_ = connected]
           /\ ws_client_' = IF key_ok THEN connect(ws_client_) ELSE ws_client_
           /\ stream_pc' = IF connected THEN [stream_pc EXCEPT !["keep_alive"] = "wait"]
                                        ELSE stream_pc
           /\ stream_history' = IF connected THEN [NoHistory EXCEPT !.started = TRUE]
                                             ELSE stream_history
    /\ stream_step' = [NoStep EXCEPT !.unguarded = {"start"}]
    /\ UNCHANGED <<mdVars, gatewayVars, validationVars, authVars, ws_pc, ws_status, ws_scheduled,
                   ws_failures, ws_attempts>>

\* stop(): returns at once when not running_; else running_ = false, the
\* keep-alive thread is notified and the caller waits in join().
StreamStop ==
    /\ stream_pc["main"] = "idle"
    /\ IF ~stream.running_
            THEN /\ stream_step' = [NoStep EXCEPT !.stop = "returned"]
                 /\ UNCHANGED <<stream, stream_pc>>
            ELSE /\ stream' = [stream EXCEPT !.running_ = FALSE]
                 /\ stream_pc' = [stream_pc EXCEPT !["main"] = "join"]
                 /\ stream_step' = [NoStep EXCEPT !.stop = "called"]
    /\ UNCHANGED <<mdVars, gatewayVars, validationVars, authVars, wsVars, stream_history>>

\* ... the keep-alive thread has exited: closeListenKey(), which clears
\* listen_key_ when the exchange accepts, then disconnect() of the client.
StreamStopJoined ==
    /\ stream_pc["main"] = "join"
    /\ stream_pc["keep_alive"] = "exited"
    /\ ws_pc = "idle"
    /\ \E close_ok \in BOOLEAN :
        stream' = [stream EXCEPT !.listen_key_ = IF close_ok THEN 0 ELSE @]
    /\ IF ws_client_.running_
            THEN /\ ws_client_' = [ws_client_ EXCEPT !.running_ = FALSE]
                 /\ ws_pc' = "join"
                 /\ stream_pc' = [main |-> "disconnect", keep_alive |-> "none"]
                 /\ stream_step' = NoStep
                 /\ stream_history' = [stream_history EXCEPT !.closed = TRUE]
            ELSE /\ stream_pc' = [main |-> "idle", keep_alive |-> "none"]
                 /\ stream_step' = [NoStep EXCEPT !.stop = "completed"]
                 /\ stream_history' = [stream_history EXCEPT !.closed = TRUE,
                                                             !.started = FALSE]
                 /\ UNCHANGED <<ws_client_, ws_pc>>
    /\ UNCHANGED <<mdVars, gatewayVars, validationVars, authVars, ws_status, ws_scheduled,
                   ws_failures, ws_attempts>>

\* disconnect() of the client, called by stop() or by the keep-alive
\* thread, after io_thread_.join(): status_callback_(false) if still
\* connected, on the calling thread.
StreamDisconnectJoined ==
    /\ ws_pc = "join"
    /\ LET n == StatusCallbacks(stream, IF ws_client_.connected_ THEN <<FALSE>> ELSE <<>>)
       IN /\ n.stream.reconnectors <= MaxPending
          /\ stream' = n.stream
          /\ IF stream_pc["keep_alive"] = "disconnect"
                THEN /\ stream_pc' = [stream_pc EXCEPT !["keep_alive"] = "reconnect"]
                     /\ stream_step' = StreamStep(n, "none")
                     /\ UNCHANGED stream_history
                ELSE /\ stream_pc' = [stream_pc EXCEPT !["main"] = "idle"]
                     /\ stream_step' = StreamStep(n, "completed")
                     /\ stream_history' = [stream_history EXCEPT !.started = FALSE]
    /\ ws_client_' = [ws_client_ EXCEPT !.io_thread_ = FALSE,
                                        !.connected_ = FALSE,
                                        !.send_queue_ = 0]
    /\ ws_pc' = "idle"
    /\ UNCHANGED <<mdVars, gatewayVars, validationVars, authVars, ws_status, ws_scheduled,
                   ws_failures, ws_attempts>>

\* keepAliveThread(), one turn of its loop after the wait: out of the loop
\* when not running_; else keepAliveListenKey(), and when that fails,
\* reconnect_attempts_++, then either running_ = false and out of the loop,
\* or disconnect() of the client.
keepAliveThread ==
    /\ stream_pc["keep_alive"] = "wait"
    /\ ws_pc = "idle"
    /\ IF ~stream.running_
        THEN /\ stream_pc' = [stream_pc EXCEPT !["keep_alive"] = "exited"]
             /\ UNCHANGED <<stream, ws_client_, ws_pc, stream_history>>
        ELSE \E kept_alive \in BOOLEAN :
            IF kept_alive
            THEN /\ stream' = [stream EXCEPT !.reconnect_attempts_ = 0]
                 /\ UNCHANGED <<stream_pc, ws_client_, ws_pc, stream_history>>
            ELSE IF stream.reconnect_attempts_ + 1 > stream.max_reconnect_attempts_
            THEN /\ stream' = [stream EXCEPT !.reconnect_attempts_ = @ + 1,
                                             !.running_ = FALSE]
                 /\ stream_pc' = [stream_pc EXCEPT !["keep_alive"] = "exited"]
                 /\ UNCHANGED <<ws_client_, ws_pc, stream_history>>
            ELSE /\ stream' = [stream EXCEPT !.reconnect_attempts_ = @ + 1]
                 /\ stream_history' =
                        [stream_history EXCEPT
                            !.forced = /\ ws_client_.connected_
                                       /\ ws_client_.connects = 0
                                       /\ ws_client_.timers = 0
                                       /\ stream.reconnectors = 0,
                            !.keys = 0, !.connects = 0]
                 /\ IF ws_client_.running_
                        THEN /\ ws_client_' = [ws_client_ EXCEPT !.running_ = FALSE]
                             /\ ws_pc' = "join"
                             /\ stream_pc' = [stream_pc EXCEPT !["keep_alive"] = "disconnect"]
                        ELSE /\ stream_pc' = [stream_pc EXCEPT !["keep_alive"] = "reconnect"]
                             /\ UNCHANGED <<ws_client_, ws_pc>>
    /\ stream_step' = [NoStep EXCEPT !.unguarded = IF stream.running_
                                                    THEN {"keepAliveListenKey"}
                                                    ELSE {}]
    /\ UNCHANGED <<mdVars, gatewayVars, validationVars, authVars, ws_status, ws_scheduled,
                   ws_failures, ws_attempts>>

\* ... after disconnect(): createListenKey() and connect() with the new
\* key; the loop goes on after five seconds when either fails.
keepAliveReconnect ==
    /\ stream_pc["keep_alive"] = "reconnect"
    /\ ws_pc = "idle"
    /\ ws_client_.connects < MaxPending
    /\ \E key_ok \in BOOLEAN :
        IF key_ok
            THEN /\ stream' = [stream EXCEPT !.listen_key_ = 1]
                 /\ ws_client_' = connect(ws_client_)
                 /\ stream_history' = Counted(stream_history, ~ws_client_.running_)
                 /\ stream_step' = [NoStep EXCEPT !.unguarded = {"keepAliveThread"}]
            ELSE /\ stream_step' = NoStep
                 /\ UNCHANGED <<stream, ws_client_, stream_history>>
    /\ stream_pc' = [stream_pc EXCEPT !["keep_alive"] = "wait"]
    /\ UNCHANGED <<mdVars, gatewayVars, validationVars, authVars, ws_pc, ws_status, ws_scheduled,
                   ws_failures, ws_attempts>>

\* A detached reconnect thread after its backoff: nothing when not
\* running_; else createListenKey() and connect(), and
\* onConnectionStateChange(false) when either fails.
reconnectThread ==
    /\ stream.reconnectors > 0
    /\ ws_pc = "idle"
    /\ ws_client_.connects < MaxPending
    /\ LET s == [stream EXCEPT !.reconnectors = @ - 1]
       IN IF ~s.running_
            THEN /\ stream' = s
                 /\ stream_step' = NoStep
                 /\ UNCHANGED <<ws_client_, stream_history>>
            ELSE \E key_ok \in BOOLEAN :
                LET keyed == IF key_ok THEN [s EXCEPT !.listen_key_ = 1] ELSE s
                    connected == key_ok /\ ~ws_client_.running_
                    n == IF connected THEN Notified(keyed, 0, 0)
                                      ELSE onConnectionStateChange(keyed, FALSE)
                IN /\ stream' = n.stream
                   /\ stream_step' =
                        [StreamStep(n, "none") EXCEPT
                            !.unguarded = IF key_ok THEN {"reconnect thread"} ELSE {}]
                   /\ ws_client_' = IF key_ok THEN connect(ws_client_) ELSE ws_client_
                   /\ stream_history' = IF key_ok THEN Counted(stream_history, connected)
                                                  ELSE stream_history
    /\ UNCHANGED <<mdVars, gatewayVars, validationVars, authVars, stream_pc, ws_pc, ws_status,
                   ws_scheduled, ws_failures, ws_attempts>>

\* A handler of the client has run on its io thread, with its status
\* callbacks.  lost tells that it was a failure of the connection itself.
StreamHandlerDone(r, lost) ==
    LET n == StatusCallbacks(stream, r.status)
    IN /\ n.stream.reconnectors <= MaxPending
       /\ ws_client_' = r.client
       /\ stream' = n.stream
       /\ stream_step' = StreamStep(n, "none")
       /\ stream_history' = IF lost THEN [stream_history EXCEPT !.forced = FALSE]
                                    ELSE stream_history
       /\ UNCHANGED <<mdVars, gatewayVars, validationVars, authVars, stream_pc, ws_pc, ws_status,
                      ws_scheduled, ws_failures, ws_attempts>>

StreamConnectError ==
    /\ ws_client_.io_thread_
    /\ ws_client_.connects > 0
    /\ ws_client_.timers < MaxPending
    /\ StreamHandlerDone(onConnectError(ws_client_), ws_client_.running_)

StreamHandshake ==
    /\ ws_client_.io_thread_
    /\ ws_client_.connects > 0
    /\ ws_client_.reads < MaxPending
    /\ StreamHandlerDone(onHandshake(ws_client_), FALSE)

StreamReadError ==
    /\ ws_client_.io_thread_
    /\ ws_client_.reads > 0
    /\ ws_client_.timers < MaxPending
    /\ StreamHandlerDone(onIoError([ws_client_ EXCEPT !.reads = @ - 1]),
                         ws_client_.running_)

StreamReconnectTimer ==
    /\ ws_client_.io_thread_
    /\ ws_client_.timers > 0
    /\ ws_client_.connects < MaxPending
    /\ StreamHandlerDone(Handled(onReconnectTimer(ws_client_), <<>>, 0), FALSE)

StreamNext ==
    \/ StreamStart
    \/ StreamStop
    \/ StreamStopJoined
    \/ StreamDisconnectJoined
    \/ keepAliveThread
    \/ keepAliveReconnect
    \/ reconnectThread
    \/ StreamConnectError
    \/ StreamHandshake
    \/ StreamReadError
    \/ StreamReconnectTimer

\* The configuration may set max_reconnect_attempts.
StreamInit ==
    /\ InitObjects
    /\ Constructed(GoodVault)
    /\ \E max \in 1..MaxStreamAttempts : StreamConstructed(max)

StreamSpec == StreamInit /\ [][StreamNext]_vars

\* ------------------------------------------ the gateway's validation
\* The gateway's functions that validate a NEW order, with the market
\* update queue that it shares with the consumer and the trade engine.
validationFrame ==
    <<authVars, wsVars, streamVars, gatewayVars, ws_disconnected, bookVars,
      consumerVars, pc, success, depth_updates, snapshot_updates, snapshot_U0,
      prev_u, fetch_rx>>

\* The ages at which the cache is looked at: just refreshed, 60 minutes
\* old, older.
Elapsed == {0, RefreshMinutes, RefreshMinutes + 1}

\* Time passes.
TimePasses ==
    /\ \E elapsed \in Elapsed :
        /\ elapsed > symbol_info_elapsed
        /\ symbol_info_elapsed' = elapsed
    /\ gw_call' = NoCall
    /\ UNCHANGED <<validationFrame, incoming_md_updates_, symbol_info_cache_>>

\* The consumer pushes a market update of its feed.
WriteMarketUpdate ==
    /\ Len(incoming_md_updates_) < MaxUpdates
    /\ \E update \in {MEMarketUpdate("CLEAR", "INVALID", INVALID, INVALID, INVALID)}
                    \cup {MEMarketUpdate("ADD", side, price, 1, 1) :
                            side \in {"BUY", "SELL"}, price \in 1..MaxFeedPrice} :
        incoming_md_updates_' = Append(incoming_md_updates_, update)
    /\ gw_call' = NoCall
    /\ UNCHANGED <<validationFrame, symbol_info_cache_, symbol_info_elapsed>>

\* getSymbolInfo(symbol) called by handleNewOrderRequest or
\* calculateOrderQuantity.
getSymbolInfoCall ==
    /\ \E ticker_id \in TickerIds, exchange_info \in ExchangeInfoResponses :
        LET symbol == getSymbolForTickerId(ticker_id)
            r == getSymbolInfo(symbol_info_cache_, symbol_info_elapsed, symbol,
                               exchange_info)
        IN /\ symbol_info_cache_' = r.cache
           /\ symbol_info_elapsed' = r.elapsed
           /\ gw_call' = Called("getSymbolInfo", ticker_id, symbol, r.ret, r.requests, r.held, 0)
    /\ UNCHANGED <<validationFrame, incoming_md_updates_>>

\* validateOrderPrice(symbol, price, side) of a NEW order:
\* getLatestMarketPrice(symbol), false without a market price; else
\* getSymbolInfo(symbol).
validateOrderPrice ==
    /\ \E ticker_id \in TickerIds, api_price \in 0..MaxFeedPrice,
          exchange_info \in ExchangeInfoResponses :
        LET symbol == getSymbolForTickerId(ticker_id)
            market == getLatestMarketPrice(incoming_md_updates_, symbol, api_price)
            r == getSymbolInfo(symbol_info_cache_, symbol_info_elapsed, symbol,
                               exchange_info)
        IN /\ incoming_md_updates_' = market.queue
           /\ IF market.price <= 0
                THEN /\ gw_call' = Called("validateOrderPrice", ticker_id, symbol, "none", 0, {},
                                          market.read)
                     /\ UNCHANGED <<symbol_info_cache_, symbol_info_elapsed>>
                ELSE /\ symbol_info_cache_' = r.cache
                     /\ symbol_info_elapsed' = r.elapsed
                     /\ gw_call' = Called("validateOrderPrice", ticker_id, symbol, r.ret,
                                          r.requests, r.held, market.read)
    /\ UNCHANGED validationFrame

\* handleNewOrderRequest or handleCancelOrderRequest: the symbol of the
\* request, the REST call (a NEW order that fails validation makes none)
\* and the response (CANCEL_REJECTED when the call throws).
orderRestCall ==
    /\ \E type \in {"NEW", "CANCEL"}, ticker_id \in TickerIds, valid \in BOOLEAN,
          ok \in BOOLEAN :
        LET requests == IF type = "CANCEL" \/ valid THEN 1 ELSE 0
            ret == IF requests = 0 \/ ~ok THEN "CANCEL_REJECTED"
                   ELSE IF type = "NEW" THEN "ACCEPTED" ELSE "CANCELED"
        IN gw_call' = Called(type, ticker_id, orderSymbol(type, ticker_id), ret,
                             requests, {}, 0)
    /\ UNCHANGED <<validationFrame, incoming_md_updates_, symbol_info_cache_,
                   symbol_info_elapsed>>

ValidationNext ==
    \/ TimePasses
    \/ WriteMarketUpdate
    \/ ReadMarketUpdate
    \/ getSymbolInfoCall
    \/ validateOrderPrice
    \/ orderRestCall

ValidationSpec == Init /\ [][ValidationNext]_vars

\* ================================================================ claims
\* What applyDepthUpdate does with the diff m on the book as it is now.
Result(m) == applyDepthUpdate(Book, m.U, m.u, m.b, m.a)

Listed(v, p) == \E i \in 1..Len(v) : v[i].price = p
ListedQty(v, p) == v[CHOOSE i \in 1..Len(v) : v[i].price = p].quantity
Present(book_side) == {p \in Prices : book_side[p] > 0}

\* C1: applyDepthUpdate returns true only on a valid book and only for a
\* diff with first_update_id <= last_update_id + 1 <= final_update_id; the
\* first diff applied after a snapshot with lastUpdateId = U0 therefore has
\* U <= U0 + 1 <= u.
C1_AcceptOnlyInSequence ==
    \A m \in DepthMessages :
        Result(m).ret =>
            /\ is_valid_
            /\ m.U <= last_update_id_ + 1
            /\ last_update_id_ + 1 <= m.u
            /\ prev_u = 0 =>
                    (m.U <= snapshot_U0 + 1 /\ snapshot_U0 + 1 <= m.u)

\* A diff has been accepted as the first one after a snapshot, and it
\* reached beyond U0 + 1.
C1_Witness ==
    /\ success
    /\ is_valid_
    /\ prev_u = last_update_id_
    /\ prev_u > snapshot_U0 + 1

\* C2: an accepted diff sets every listed level with q > 0 to q, removes
\* every listed level with q = 0 on its own side, leaves the unlisted levels
\* alone and makes last_update_id the diff's final id, which is greater than
\* the id before the call.
SideUpdated(old, v, new) ==
    \A p \in Prices :
        IF Listed(v, p)
            THEN /\ ListedQty(v, p) > 0 => new[p] = ListedQty(v, p)
                 /\ ListedQty(v, p) = 0 => new[p] = 0
            ELSE new[p] = old[p]

C8_BestBidBelowBestAsk ==
    (is_valid_ /\ Present(bids_) # {} /\ Present(asks_) # {}) =>
        getBestBidPrice(Book) < getBestAskPrice(Book)

\* C3: on a valid book a diff with first_update_id > last_update_id + 1 is
\* rejected: applyDepthUpdate returns false, sets needs_refresh, leaves both
\* sides and last_update_id as they were, and processDepthUpdate returns
\* from a rejected diff without writing to the queue.
C3_GapRejected ==
    /\ [](\A m \in FeedMessages :
            (is_valid_ /\ m.U > last_update_id_ + 1) =>
                /\ ~Result(m).ret
                /\ Result(m).book.needs_refresh
                /\ Result(m).book.bids = bids_
                /\ Result(m).book.asks = asks_
                /\ Result(m).book.last_update_id = last_update_id_)
    /\ [][(pc["depth"] = "returned" /\ ~success /\ pc'["depth"] # "returned") =>
            /\ pc'["depth"] = "idle"
            /\ incoming_md_updates_' = incoming_md_updates_
            /\ depth_updates' = <<>>]_vars

\* A gap has been met on a valid book (nothing else marks a valid book) and
\* processDepthUpdate has returned from the rejected diff.
C3_Witness ==
    /\ is_valid_
    /\ needs_refresh_
    /\ ~success
    /\ pc["depth"] = "idle"
    /\ depth_ws_clients_

\* C5 as claimed: once a snapshot procedure has returned, every diff that
\* was received while its fetch was in flight and has u >= U0 + 1 has been
\* applied on top of the snapshot: the diff applied last ends at or after it.
RefreshReturned ==
    /\ ~FetchInFlight
    /\ \A t \in SnapshotThreads : pc[t] \notin {"generate", "push"}
    /\ pc["depth"] = "idle"

C5_InFlightDiffsApplied ==
    (RefreshReturned /\ is_valid_ /\ fetch_rx >= snapshot_U0 + 1) =>
        prev_u >= fetch_rx

\* C7 as claimed: no step of any thread makes last_update_id smaller.
C7_LastUpdateIdMonotonic ==
    [][last_update_id_' >= last_update_id_]_vars

\* C9: processDepthUpdate writes to the queue exactly when applyDepthUpdate
\* returned true, and then it writes the updates of one full serialisation
\* of the book, one by one: one CLEAR followed by one ADD per level that
\* the book holds when it is serialised.
IsAddOf(update, side, book_side) ==
    /\ update.type = "ADD"
    /\ update.side = side
    /\ update.price \in Present(book_side)
    /\ update.qty = book_side[update.price]

IsFullBookSerialisation(updates, book) ==
    /\ Len(updates) = 1 + Cardinality(Present(book.bids)) + Cardinality(Present(book.asks))
    /\ updates[1].type = "CLEAR"
    /\ \A i \in 2..Len(updates) :
            IsAddOf(updates[i], "BUY", book.bids) \/ IsAddOf(updates[i], "SELL", book.asks)
    /\ \A p \in Present(book.bids) :
            \E i \in 2..Len(updates) : updates[i].side = "BUY" /\ updates[i].price = p
    /\ \A p \in Present(book.asks) :
            \E i \in 2..Len(updates) : updates[i].side = "SELL" /\ updates[i].price = p

C9_WritesIffAccepted ==
    /\ [](/\ pc["depth"] = "push" => (success /\ depth_updates # <<>>)
          /\ pc["depth"] \in {"idle", "returned"} => depth_updates = <<>>)
    /\ [][(pc["depth"] = "returned" /\ pc'["depth"] # "returned") =>
            /\ incoming_md_updates_' = incoming_md_updates_
            /\ IF success
                 THEN /\ pc'["depth"] = "push"
                      /\ IsFullBookSerialisation(depth_updates', Book)
                 ELSE pc'["depth"] = "idle"]_vars
    /\ [][(pc["depth"] = "push" /\ depth_updates' # depth_updates) =>
            /\ incoming_md_updates_' = Append(incoming_md_updates_, Head(depth_updates))
            /\ depth_updates' = Tail(depth_updates)]_vars
    /\ [][(pc["depth"] # "push" /\ pc'["depth"] = pc["depth"]) =>
            depth_updates' = depth_updates]_vars

\* An accepted diff's CLEAR has been written and the ADD of a level is the
\* next update to write.
C9_Witness ==
    /\ pc["depth"] = "push"
    /\ success
    /\ Len(depth_updates) = 1
    /\ depth_updates[1].type = "ADD"

\* C10: while the consumer runs with its refresh thread, a book that has
\* needs_refresh set leads to the refresh thread fetching a snapshot for it,
\* and the refresh thread has a fetch in flight only for a book whose
\* needs_refresh is set.
C10_RefresherRefetches ==
    /\ [](pc["refresher"] = "fetch" => needs_refresh_)
    /\ (run_ /\ snapshot_thread_running_ /\ needs_refresh_)
            ~> (pc["refresher"] = "fetch" \/ ~run_)

\* The refresh thread has a fetch in flight for a book that a gap marked
\* after a snapshot had been applied.
C10_Witness ==
    /\ pc["refresher"] = "fetch"
    /\ run_
    /\ is_valid_
    /\ needs_refresh_

\* C11 as claimed: once the depth WebSocket has reported a disconnect, no
\* diff is applied to the book until a snapshot has been applied again.
C11_ResnapshotBeforeDiffs ==
    [][(pc["depth"] = "idle" /\ pc'["depth"] = "returned" /\ success') =>
            ~ws_disconnected]_vars

\* The processing thread has moved past the k-th request, and the queue
\* holds a response with its order_id.
Responded(k) ==
    /\ next_read_index >= k
    /\ \E i \in 1..Len(incoming_responses_) :
        incoming_responses_[i].client_order_id = outgoing_requests_[k].order_id

\* C12: a NEW request taken by the processing loop is answered by ACCEPTED
\* with exec_qty 0 and leaves_qty the request's qty, the exchange id stored,
\* when the POST returned an orderId, and by CANCEL_REJECTED with the map
\* untouched otherwise; that one response is enqueued, and only after it does
\* the read index move on by one, so that the loop goes on to the next
\* request after either outcome.
C12_NewOrderResponse ==
    /\ [](\A request \in MEClientRequest : \A outcome \in NewOrderOutcomes :
            LET r == handleNewOrderRequest(order_id_to_binance_id_, request, outcome)
            IN IF outcome.kind = "posted"
                 THEN /\ r.response.type = "ACCEPTED"
                      /\ r.response.client_order_id = request.order_id
                      /\ r.response.exec_qty = 0
                      /\ r.response.leaves_qty = request.qty
                 ELSE /\ r.response.type = "CANCEL_REJECTED"
                      /\ r.response.client_order_id = request.order_id
                      /\ r.map = order_id_to_binance_id_)
    /\ [][(gw_pc["processing"] = "new" /\ gw_pc'["processing"] # "new") =>
            /\ gw_pc'["processing"] = "write"
            /\ response'["processing"].type \in {"ACCEPTED", "CANCEL_REJECTED"}
            /\ response'["processing"].client_order_id = NextToRead.order_id
            /\ incoming_responses_' = incoming_responses_
            /\ next_read_index' = next_read_index]_vars
    /\ [][(gw_pc["processing"] = "write" /\ gw_pc'["processing"] # "write") =>
            /\ gw_pc'["processing"] = "read_advance"
            /\ incoming_responses_' =
                    Append(incoming_responses_, response["processing"])
            /\ next_read_index' = next_read_index]_vars
    /\ [][next_read_index' # next_read_index =>
            /\ gw_pc["processing"] = "read_advance"
            /\ gw_pc'["processing"] = "for"
            /\ next_read_index' = next_read_index + 1]_vars

\* A rejected NEW request was followed by an accepted one, both answered.
C12_Witness ==
    /\ next_read_index = 2
    /\ outgoing_requests_[1].type = "NEW"
    /\ outgoing_requests_[2].type = "NEW"
    /\ Len(incoming_responses_) = 2
    /\ incoming_responses_[1] =
            MEClientResponse("CANCEL_REJECTED", outgoing_requests_[1].order_id, 0, 0)
    /\ incoming_responses_[2] =
            MEClientResponse("ACCEPTED", outgoing_requests_[2].order_id, 0,
                             outgoing_requests_[2].qty)

\* C13: while the gateway stays started, a request in the client request
\* queue leads to the processing thread having enqueued a response with the
\* request's order_id and moved past the request; the response the thread
\* enqueues for a request always carries that request's order_id.
C13_RequestAnswered ==
    /\ [][(gw_pc["processing"] = "write" /\ gw_pc'["processing"] = "read_advance") =>
            /\ incoming_responses_' =
                    Append(incoming_responses_, response["processing"])
            /\ response["processing"].client_order_id = NextToRead.order_id]_vars
    /\ \A k \in 1..MaxRequests :
        (gw_run_ /\ Len(outgoing_requests_) >= k) ~> (Responded(k) \/ ~gw_run_)

\* A NEW and a CANCEL request were both answered with the gateway running.
C13_Witness ==
    /\ gw_run_
    /\ Len(outgoing_requests_) = 2
    /\ outgoing_requests_[1].type = "NEW"
    /\ outgoing_requests_[2].type = "CANCEL"
    /\ outgoing_requests_[1].order_id # outgoing_requests_[2].order_id
    /\ Responded(1)
    /\ Responded(2)

\* C14: the orderId of the DELETE is the map's entry for the request's
\* order_id, or the decimal representation of order_id without an entry; the
\* response is CANCELED when the DELETE succeeds and CANCEL_REJECTED when it
\* fails; handling the CANCEL leaves the map as it is.
C14_CancelLookup ==
    /\ [][(gw_pc["processing"] = "for" /\ gw_pc'["processing"] = "cancel") =>
            /\ binance_order_id' =
                    IF order_id_to_binance_id_[NextToRead.order_id] # NoEntry
                        THEN order_id_to_binance_id_[NextToRead.order_id]
                        ELSE to_string(NextToRead.order_id)
            /\ order_id_to_binance_id_' = order_id_to_binance_id_]_vars
    /\ [][(gw_pc["processing"] = "cancel" /\ gw_pc'["processing"] # "cancel") =>
            /\ response'["processing"] \in
                    {MEClientResponse("CANCELED", NextToRead.order_id, 0, 0),
                     MEClientResponse("CANCEL_REJECTED", NextToRead.order_id, 0, 0)}
            /\ order_id_to_binance_id_' = order_id_to_binance_id_]_vars
    /\ [](\A request \in MEClientRequest :
            /\ handleCancelOrderResponse(request, TRUE).type = "CANCELED"
            /\ handleCancelOrderResponse(request, FALSE).type = "CANCEL_REJECTED")

\* A DELETE is in flight with the exchange id that the user data stream
\* stored over the one of the POST.
C14_Witness ==
    /\ gw_pc["processing"] = "cancel"
    /\ next_read_index = 1
    /\ outgoing_requests_[1].type = "NEW"
    /\ incoming_responses_[1].type = "ACCEPTED"
    /\ binance_order_id = to_string(MaxExchangeId)
    /\ Len(incoming_responses_) = 2
    /\ incoming_responses_[2].client_order_id = NextToRead.order_id

\* C15 as claimed: a response of type FILLED or CANCELED for an order_id is
\* the last response in the client response queue for that order_id.
C15_TerminalIsLast ==
    \A i, j \in 1..Len(incoming_responses_) :
        (i < j /\ incoming_responses_[i].type \in {"FILLED", "CANCELED"}) =>
            incoming_responses_[j].client_order_id #
                incoming_responses_[i].client_order_id

\* C16 as claimed: along the responses enqueued for one client_order_id,
\* exec_qty + leaves_qty never decreases.
C16_QtySumNonDecreasing ==
    \A i, j \in 1..Len(incoming_responses_) :
        (i < j /\ incoming_responses_[i].client_order_id =
                    incoming_responses_[j].client_order_id) =>
            incoming_responses_[i].exec_qty + incoming_responses_[i].leaves_qty
                <= incoming_responses_[j].exec_qty + incoming_responses_[j].leaves_qty

\* The decimal string of the exchange order id of an executionReport.
DecimalOf(i) == IF i.kind = "string" THEN i.value ELSE to_string(i.value)

\* C17 as claimed: handling an executionReport whose c is "x-<n>", n a
\* positive order id, leaves the map with n mapped to the decimal string of
\* i and enqueues exactly one response for n, with exec_qty = z and
\* leaves_qty = q - z.
C17_ExecutionReportHandled ==
    \A order_update \in ExecutionReports : \A n \in OrderIds :
        order_update.c = <<"x", "-">> \o to_string(n) =>
            LET r == processOrderUpdate(order_id_to_binance_id_, order_update)
            IN /\ r.map[n] = DecimalOf(order_update.i)
               /\ Len(r.responses) = 1
               /\ r.responses[1].client_order_id = n
               /\ r.responses[1].exec_qty = order_update.z
               /\ r.responses[1].leaves_qty = order_update.q - order_update.z

\* C18: whenever the user data thread can take an executionReport, the
\* response that handling it produces has type
\* ACCEPTED for status NEW or PARTIALLY_FILLED, FILLED for FILLED, and
\* CANCELED for CANCELED, EXPIRED or REJECTED.
C18_StatusMapping ==
    (user_data_stream_ /\ gw_pc["user_data"] = "idle"
            /\ Len(incoming_responses_) < MaxResponses) =>
    \A order_update \in ExecutionReports :
        LET r == processOrderUpdate(order_id_to_binance_id_, order_update)
        IN r.responses # <<>> =>
            /\ order_update.X \in {"NEW", "PARTIALLY_FILLED"} =>
                    r.responses[1].type = "ACCEPTED"
            /\ order_update.X = "FILLED" => r.responses[1].type = "FILLED"
            /\ order_update.X \in {"CANCELED", "EXPIRED", "REJECTED"} =>
                    r.responses[1].type = "CANCELED"

\* The user data thread is about to enqueue the CANCELED response of an
\* executionReport whose exchange order id it has stored.
C18_Witness ==
    /\ gw_pc["user_data"] = "write"
    /\ response["user_data"].type = "CANCELED"
    /\ response["user_data"].exec_qty = 0
    /\ order_id_to_binance_id_[response["user_data"].client_order_id] # NoEntry

\* C19 as claimed: no two threads are inside generateAndEnqueueResponse,
\* between getNextToWriteTo and updateWriteIndex, at the same time.
C19_SingleResponseWriter ==
    ~(gw_pc["processing"] = "write" /\ gw_pc["user_data"] = "write")

\* C20 as claimed: no two threads of the consumer are in their loops that
\* write the market update queue at the same time.
C20_SingleMarketUpdateWriter ==
    Cardinality({t \in DOMAIN pc : pc[t] = "push"}) <= 1

\* C28: while the authenticator has no valid credentials the gateway is not
\* started: run_ is false, there is no processing thread and no user data
\* stream, and no request has been read; a start() called then returns
\* without changing any of that.
C28_NoStartWithoutCredentials ==
    /\ [](~hasValidCredentials(authenticator_) =>
            /\ ~gw_run_
            /\ gw_pc["processing"] = "off"
            /\ ~user_data_stream_
            /\ next_read_index = 0)
    /\ [][(~hasValidCredentials(authenticator_) /\ gw_pc'["main"] # gw_pc["main"]) =>
            /\ gw_pc'["main"] = "refused"
            /\ gw_run_' = gw_run_
            /\ gw_pc'["processing"] = gw_pc["processing"]
            /\ user_data_stream_' = user_data_stream_
            /\ next_read_index' = next_read_index]_vars

\* start() has returned without starting, with requests waiting unread.
C28_Witness ==
    /\ ~hasValidCredentials(authenticator_)
    /\ gw_pc["main"] = "refused"
    /\ Len(outgoing_requests_) = MaxRequests
    /\ next_read_index = 0

\* C29 as claimed: after a loadCredentials() that returned false,
\* hasValidCredentials() is false, signRequest returns no signed query and
\* addAuthHeaders adds no X-MBX-APIKEY header.
C29_FailedLoadInvalidates ==
    load_result = "failed" =>
        /\ ~hasValidCredentials(authenticator_)
        /\ \A parameters \in Parameters : \A with_timestamp \in BOOLEAN :
            \A ms \in 1..MaxStamp :
                signRequest(authenticator_, parameters, with_timestamp, ms).empty
        /\ addAuthHeaders(authenticator_, {}) = {}

\* C30 as claimed: with credentials loaded, the signed query is the supplied
\* parameters in insertion order, followed by a timestamp parameter exactly
\* when none was supplied, and the signature is computed over just that; so
\* the query has exactly one timestamp parameter.
C30_SignedQuery ==
    authenticator_.credentials_loaded_ =>
        \A parameters \in Parameters : \A with_timestamp \in BOOLEAN :
            \A ms \in 1..MaxStamp :
                LET r == signRequest(authenticator_, parameters, with_timestamp, ms)
                    supplied == \E i \in 1..Len(parameters) :
                                    parameters[i].name = "timestamp"
                IN /\ r.query = IF supplied THEN parameters
                                ELSE parameters \o <<Param("timestamp", ms)>>
                   /\ r.signature = HMAC(authenticator_.secret_key_, r.query)
                   /\ Cardinality({i \in 1..Len(r.query) :
                                    r.query[i].name = "timestamp"}) = 1

\* The client is below its attempt limit.
BelowLimit(c) ==
    c.max_reconnect_attempts_ = 0 \/ c.reconnect_attempts_ < c.max_reconnect_attempts_

\* How many times status_callback_ was called with v by the last step.
StatusCalls(status, v) == Cardinality({i \in 1..Len(status) : status[i] = v})

\* C21 as claimed: the k-th consecutive failed connection of a running client
\* below its limit creates a reconnect timer of min(2^(k-1), 30) seconds.
C21_BackoffSchedule ==
    [][(ws_failures' = ws_failures + 1 /\ BelowLimit(ws_client_)) =>
            ws_scheduled' = Min(Pow2(ws_failures' - 1), ReconnectDelayCap)]_vars

\* C22 as claimed: with max_reconnect_attempts 0 running_ is cleared by
\* disconnect() only; with a limit N > 0 no more than N reconnect attempts
\* are made in a row, and once the N-th of them has failed running_ is false.
C22_AttemptLimit ==
    /\ [][(ws_client_.max_reconnect_attempts_ = 0
            /\ ws_client_.running_ /\ ~ws_client_'.running_) => ws_pc' = "join"]_vars
    /\ [](ws_client_.max_reconnect_attempts_ > 0 =>
            /\ ws_attempts <= ws_client_.max_reconnect_attempts_
            /\ (ws_attempts = ws_client_.max_reconnect_attempts_
                    /\ ws_client_.connects = 0 /\ ~ws_client_.connected_) =>
                    ~ws_client_.running_)

\* C23: a successful handshake leaves reconnect_attempts_ 0, reconnect_delay_
\* at the initial delay and reconnecting_ false, and the failure of the
\* connection it established creates a timer of the initial delay.
C23_HandshakeResets ==
    /\ [][(~ws_client_.connected_ /\ ws_client_'.connected_) =>
            /\ ws_client_'.reconnect_attempts_ = 0
            /\ ws_client_'.reconnect_delay_ = InitialReconnectDelay
            /\ ~ws_client_'.reconnecting_]_vars
    /\ [][(ws_client_.connected_ /\ ws_failures' = ws_failures + 1) =>
            ws_scheduled' = InitialReconnectDelay]_vars

\* C24 as claimed: status_callback_(false) is called once by a step that
\* takes connected_ from true to false, and by no other step.
C24_StatusFalseOncePerTransition ==
    [][StatusCalls(ws_status', FALSE) =
            IF ws_client_.connected_ /\ ~ws_client_'.connected_ THEN 1 ELSE 0]_vars

\* C25: a single keep-alive failure triggers exactly one forced reconnect:
\* since the failure one listen key has been created at most, one connect()
\* made at most, and no reconnect thread runs beside the keep-alive
\* thread's own sequence.
C25_OneForcedReconnect ==
    stream_history.forced =>
        /\ stream_history.keys <= 1
        /\ stream_history.connects <= 1
        /\ stream.reconnectors = 0

\* C26: when the stream stops itself because reconnect_attempts_ exceeds
\* max_reconnect_attempts_, on either path, that step passes one
\* connection_failure event to user_data_callback_; the n-th reconnection
\* attempt waits min(30, 2^(n-1)) seconds.
C26_ExhaustionNotified ==
    /\ [][(stream.running_ /\ ~stream'.running_ /\ stream_step'.stop = "none") =>
                stream_step'.failure_events = 1]_vars
    /\ [][stream'.reconnectors > stream.reconnectors =>
                stream_step'.backoff =
                    Min(BackoffCap, Pow2(stream'.reconnect_attempts_ - 1))]_vars

\* C27: a stop() call on a stream that was started returns only after it
\* has closed the listen key, joined the keep-alive thread and disconnected
\* the WebSocket, also when the stream has stopped itself before.
C27_StopCleansUp ==
    [][(stream_history.started /\ stream_step'.stop \in {"returned", "completed"}) =>
            /\ stream_history'.closed
            /\ stream_pc'["keep_alive"] = "none"
            /\ ~ws_client_'.running_]_vars

\* C37: a WebSocket client that is running and not connected has a
\* connection attempt in progress or a reconnect timer pending.
C37_NeverIdleDisconnected ==
    (ws_client_.running_ /\ ~ws_client_.connected_) =>
        (ws_client_.connects > 0 \/ ws_client_.timers > 0)

\* C38: the stream stops itself (and surfaces connection_failure) only when
\* its WebSocket is not connected and the client has no connection attempt
\* in progress and no reconnect timer pending.
C38_StopsOnlyAfterRealFailures ==
    [][(stream.running_ /\ ~stream'.running_ /\ stream_step'.stop = "none") =>
            /\ ~ws_client_.connected_
            /\ ws_client_.connects = 0
            /\ ws_client_.timers = 0]_vars

Before(book_side, side, p) ==
    Cardinality({r \in Present(book_side) : IF side = "BUY" THEN r > p ELSE r < p})

\* C33: generateMarketUpdates on the book as it is now appends nothing when
\* the book is not valid; else one CLEAR for the ticker, then one ADD per
\* bid from the highest price down with priority 1, 2, ..., then one ADD per
\* ask from the lowest price up with priority 1, 2, ..., each ADD with its
\* level's quantity and with order_id equal to its price.
C33_FullBookSerialisation ==
    LET updates == generateMarketUpdates(Book)
        nbids == Cardinality(Present(bids_))
        nasks == Cardinality(Present(asks_))
    IN IF ~is_valid_ THEN updates = <<>>
       ELSE /\ Len(updates) = 1 + nbids + nasks
            /\ updates[1].type = "CLEAR" /\ updates[1].ticker_id = 1
            /\ \A i \in 1..nbids :
                LET u == updates[1 + i]
                IN /\ u.type = "ADD" /\ u.side = "BUY" /\ u.ticker_id = 1
                   /\ u.price \in Present(bids_)
                   /\ Before(bids_, "BUY", u.price) = i - 1
                   /\ u.qty = bids_[u.price]
                   /\ u.priority = i
                   /\ u.order_id = u.price
            /\ \A i \in 1..nasks :
                LET u == updates[1 + nbids + i]
                IN /\ u.type = "ADD" /\ u.side = "SELL" /\ u.ticker_id = 1
                   /\ u.price \in Present(asks_)
                   /\ Before(asks_, "SELL", u.price) = i - 1
                   /\ u.qty = asks_[u.price]
                   /\ u.priority = i
                   /\ u.order_id = u.price

\* A valid book with more than one level on each side.
C33_Witness ==
    /\ is_valid_
    /\ Cardinality(Present(bids_)) > 1
    /\ Cardinality(Present(asks_)) > 1

\* A thread has pushed the CLEAR of its batch and not yet its last ADD.
DepthMidBatch == pc["depth"] = "push" /\ Head(depth_updates).type # "CLEAR"
SnapshotMidBatch ==
    \E t \in SnapshotThreads : pc[t] = "push" /\ Head(snapshot_updates).type # "CLEAR"

\* C40: each full-book serialisation is contiguous in the market update
\* queue: no thread pushes an update while the other writer is between the
\* CLEAR and the last ADD of its own batch.
C40_BatchesContiguous ==
    [][/\ (pc["depth"] = "push" /\ depth_updates' = Tail(depth_updates)) =>
                ~SnapshotMidBatch
       /\ ((\E t \in SnapshotThreads : pc[t] = "push")
                /\ snapshot_updates' = Tail(snapshot_updates)) =>
                ~DepthMidBatch]_vars

\* C31: a symbol-info lookup makes no exchangeInfo request while the cache
\* is non-empty and at most 60 minutes old, and a refresh that fails
\* (transport error, unparsable body, body without a symbols array) leaves
\* every cached entry cached and still returned by the lookup.
C31_CacheServesWhileFresh ==
    \A ticker_id \in TickerIds, exchange_info \in ExchangeInfoResponses :
        LET symbol == getSymbolForTickerId(ticker_id)
            r == getSymbolInfo(symbol_info_cache_, symbol_info_elapsed, symbol,
                               exchange_info)
        IN /\ (symbol_info_cache_ # {} /\ symbol_info_elapsed <= RefreshMinutes)
                => r.requests = 0
           /\ (r.requests = 1 /\ exchange_info.kind # "symbols")
                => /\ r.cache = symbol_info_cache_
                   /\ symbol \in symbol_info_cache_ => r.ret = symbol

\* C34: no call of the gateway holds two mutexes at once: the
\* Authenticator's mutex is never taken while the symbol-info cache's mutex
\* is held.
C34_OneMutexAtATime == Cardinality(gw_call.held) <= 1

\* C36: getLatestMarketPrice for BTCUSDT, ETHUSDT or BNBUSDT advances the
\* read index past every entry of the market update queue and writes none
\* back: after it the queue is empty, whatever it held.
C36_PriceLookupDrainsQueue ==
    /\ \A symbol \in {"BTCUSDT", "ETHUSDT", "BNBUSDT"}, api_price \in 0..MaxFeedPrice :
        LET market == getLatestMarketPrice(incoming_md_updates_, symbol, api_price)
        IN /\ market.queue = <<>>
           /\ market.read = Len(incoming_md_updates_)
    /\ (gw_call.op = "validateOrderPrice"
            /\ gw_call.symbol \in {"BTCUSDT", "ETHUSDT", "BNBUSDT"})
        => incoming_md_updates_ = <<>>

C36_Witness ==
    /\ gw_call.op = "validateOrderPrice"
    /\ gw_call.symbol = "ETHUSDT"
    /\ gw_call.read = MaxUpdates
    /\ incoming_md_updates_ = <<>>

\* C39: a NEW and a CANCEL request are sent for the symbol configured for
\* the request's ticker_id, and a request whose ticker_id is not configured
\* makes no REST call and is answered CANCEL_REJECTED.
C39_OrdersUseConfiguredSymbol ==
    gw_call.op \in {"NEW", "CANCEL"} =>
        IF gw_call.ticker_id \in DOMAIN tickers_
            THEN gw_call.symbol = tickers_[gw_call.ticker_id]
            ELSE gw_call.requests = 0 /\ gw_call.ret = "CANCEL_REJECTED"

\* C35: every read and write of the listen key, in start(),
\* keepAliveListenKey(), closeListenKey(), the keep-alive thread and the
\* reconnect thread, is made under listen_key_mutex_.
C35_ListenKeyUnderMutex == stream_step.unguarded = {}

====
